---- MODULE Spec2Model ----
(***************************************************************************)
(* Pitch-analysis pipeline of the music practice app                       *)
(* (src/src/components/AudioPlayer.jsx and the App component in            *)
(* src/unnamed/part_001).                                                  *)
(*                                                                         *)
(* Representation of numbers.  JavaScript numbers are modelled by exact    *)
(* arithmetic:                                                             *)
(*   - a time is held in sample periods: the model value t stands for      *)
(*     t / sampleRate seconds, so 2048 / sampleRate s is the integer 2048  *)
(*     and "gap < 0.1 s" is "10 * gap < sampleRate";                       *)
(*   - a frequency is an exact fraction [num, den] of Hz (den > 0);        *)
(*   - a sample amplitude is an exact fraction of 1/1000 of full scale;    *)
(*   - a Float32Array is held run-length encoded: the run [n, v] stands    *)
(*     for n consecutive samples of value v.                               *)
(* The rounding of double-precision arithmetic is kept in one place, where *)
(* a branch depends on its sign: the gap between two contiguous frames of  *)
(* the live analysis (ComputedGap).                                        *)
(* The pitch detector (pitchfinder's YIN) is outside the repository: yin   *)
(* is the list of answers it gives for the successive windows.             *)
(***************************************************************************)
EXTENDS Integers, Sequences, FiniteSets, TLC

VARIABLES
    pending,            \* the event waiting to be handled: "ready", "onstop", "none"
    sampleRate,         \* buffer.sampleRate
    channelData,        \* buffer.getChannelData(0), run-length encoded
    yin,                \* detectPitch's answers, one per window
    chunks,             \* lengths of the chunks the analysis handed to detectPitch
    pitchData,          \* useState: the detector's answer per frame (file)
    decodingDuration,   \* useState: buffer.duration (in sample periods)
    pitchSegments,      \* useState: segments of the file analysis
    userPitches,        \* analyzeUserAudio: pitches
    rawSegments,        \* analyzeUserAudio: rawSegments
    smoothedSegments,   \* analyzeUserAudio: smoothedSegments
    userPitchSegments,  \* useState: what analyzeUserAudio returned
    showSargam,         \* prop
    rootKey,            \* prop
    memo,               \* position of the stableNotes useMemo: "idle", "stale", "loop"
    i,                  \* stableNotes: loop index (1-based)
    currentRun,         \* stableNotes: currentRun
    events,             \* stableNotes: events
    stableNotes,        \* the memoized value
    isReady,            \* useState: WaveSurfer has decoded the file
    time,               \* the playback time the last checkPitch or timeupdate saw (null before)
    activeNote,         \* useState: the highlighted note name ("" for null)
    currentNote,        \* App useState, set through onPitchUpdate (NoNote for null)
    conversion,         \* a frequency, its MIDI number and that number's frequency
    handler,            \* pitchData and decodingDuration as the timeupdate handler sees them
    fault,              \* whether the last file analysis raised, and the stage at which the
                        \* last live analysis did ("none" if it did not)
    appRecording,       \* App useState isRecording
    isRecording,        \* AudioPlayer useState isRecording
    waiting,            \* startRecording calls suspended at  await getUserMedia
    recorders,          \* the MediaRecorders created so far, with their streams
    mediaRecorderRef    \* mediaRecorderRef.current: a place in recorders (0 for null)

bufferVars == <<sampleRate, channelData, yin>>
fileVars   == <<pitchData, decodingDuration, pitchSegments>>
liveVars   == <<userPitches, rawSegments, smoothedSegments, userPitchSegments>>
labelVars  == <<showSargam, rootKey>>
memoVars   == <<memo, i, currentRun, events, stableNotes>>
playVars   == <<isReady, time, activeNote, currentNote>>
effectVars == <<handler, fault>>
recVars    == <<appRecording, isRecording, waiting, recorders, mediaRecorderRef>>
vars == <<pending, bufferVars, chunks, fileVars, liveVars, labelVars, memoVars, playVars,
          conversion, effectVars, recVars>>

----------------------------------------------------------------------------
(* Bounds of the model *)

MaxFrames == 4          \* longest enumerated list of detector answers
MaxNotes == 2           \* longest list of detector answers under changing labels
MaxRecorders == 2       \* startRecording calls that are suspended or have created a recorder

----------------------------------------------------------------------------
(* Program constants *)

NOTES == <<"C", "C#", "D", "D#", "E", "F", "F#", "G", "G#", "A", "A#", "B">>
SARGAM_MAPPING == <<"Sa", "re", "Re", "ga", "Ga", "Ma", "MA", "Pa", "dha", "Dha", "ni", "Ni">>

bufferSize == 2048      \* processBufferToSegments: window = hop
windowSize == 2048      \* analyzeUserAudio
hopSize == 512          \* analyzeUserAudio

\* JavaScript null, distinct from every number the detector returns.
null == 0 - 1

----------------------------------------------------------------------------
(* Exact fractions *)

Rat(n, d) == [num |-> n, den |-> d]
RatLt(a, b) == a.num * b.den < b.num * a.den
RatLe(a, b) == a.num * b.den <= b.num * a.den
RatEq(a, b) == a.num * b.den = b.num * a.den

Abs(x) == IF x < 0 THEN -x ELSE x
Max(a, b) == IF a > b THEN a ELSE b
Min(a, b) == IF a < b THEN a ELSE b

\* Math.round of the non-negative fraction n / d.
Round(n, d) == (2 * n + d) \div (2 * d)

RECURSIVE SumFreq(_)
SumFreq(run) ==
    IF run = <<>> THEN Rat(0, 1)
    ELSE LET h == Head(run).freq
             t == SumFreq(Tail(run))
         IN  Rat(h.num * t.den + t.num * h.den, h.den * t.den)

----------------------------------------------------------------------------
(* Note helpers *)

\* MidiLow[m - 23] is the least frequency, in 1/1000 Hz rounded up, that
\* Math.round(69 + 12 * Math.log2(f / 440)) maps to m or more, that is
\* 440 * 2^((m - 69.5) / 12), for m = 24 .. 97.
MidiLow ==
    << 31773, 33662, 35664, 37784, 40031, 42411, 44933, 47605,
       50436, 53435, 56612, 59978, 63545, 67323, 71327, 75568,
       80061, 84822, 89866, 95210, 100871, 106869, 113224, 119956,
       127089, 134646, 142653, 151135, 160122, 169644, 179731, 190419,
       201741, 213738, 226447, 239912, 254178, 269292, 285305, 302270,
       320244, 339287, 359462, 380837, 403482, 427475, 452893, 479824,
       508356, 538584, 570610, 604540, 640488, 678573, 718923, 761673,
       806964, 854949, 905786, 959647, 1016711, 1077168, 1141219, 1209080,
       1280975, 1357146, 1437846, 1523345, 1613928, 1709897, 1811572, 1919294,
       2033421, 2154335 >>

\* Math.round(69 + 12 * Math.log2(f / 440)) for 31.773 Hz <= f < 2154.335 Hz.
RoundedPitch(f) ==
    CHOOSE m \in 24 .. 96 :
        /\ MidiLow[m - 23] * f.den <= f.num * 1000
        /\ f.num * 1000 < MidiLow[m - 22] * f.den

\* 1000 * 440 * Math.pow(2, (midi - 69) / 12), rounded, for midi = 21 .. 97.
MidiCenter ==
    << 27500, 29135, 30868, 32703, 34648, 36708, 38891, 41203,
       43654, 46249, 48999, 51913, 55000, 58270, 61735, 65406,
       69296, 73416, 77782, 82407, 87307, 92499, 97999, 103826,
       110000, 116541, 123471, 130813, 138591, 146832, 155563, 164814,
       174614, 184997, 195998, 207652, 220000, 233082, 246942, 261626,
       277183, 293665, 311127, 329628, 349228, 369994, 391995, 415305,
       440000, 466164, 493883, 523251, 554365, 587330, 622254, 659255,
       698456, 739989, 783991, 830609, 880000, 932328, 987767, 1046502,
       1108731, 1174659, 1244508, 1318510, 1396913, 1479978, 1567982, 1661219,
       1760000, 1864655, 1975533, 2093005, 2217461 >>

\* Faulty variant of freqCenter: the scale is anchored at 60 instead of 69.
freqCenterFrom60(midi) == Rat(MidiCenter[(midi + 9) - 20], 1000)

\* const freqCenter = 440 * Math.pow(2, (midi - 69) / 12), to the nearest
\* thousandth of a hertz.
freqCenter(midi) == Rat(MidiCenter[midi - 20], 1000)

\* No conversion has been asked for.
NoConversion == [freq |-> Rat(0, 1), midi |-> null, center |-> Rat(0, 1)]

getMidi(freq) ==
    IF freq.num = 0 THEN null ELSE RoundedPitch(freq)

\* NOTES[midi % 12] (JavaScript arrays are 0-based).
NoteOf(midi) == NOTES[(midi % 12) + 1]

\* NOTES.indexOf(name), -1 when absent.
IndexOf(name) ==
    IF \E k \in 1 .. Len(NOTES) : NOTES[k] = name
    THEN (CHOOSE k \in 1 .. Len(NOTES) : NOTES[k] = name) - 1
    ELSE -1

\* `${noteName}${octave}`
FullNote(midi) == NoteOf(midi) \o ToString((midi \div 12) - 1)

getNote(frequency) ==
    IF frequency.num = 0 THEN "null" ELSE FullNote(RoundedPitch(frequency))

----------------------------------------------------------------------------
(* Sample buffers *)

RECURSIVE Length(_)
Length(data) ==
    IF data = <<>> THEN 0 ELSE Head(data).n + Length(Tail(data))

\* The run-length encoding of a buffer of len samples: first samples of
\* value a, then samples of value b.
Samples(len, first, a, b) ==
    LET k == Min(first, len)
    IN  (IF k > 0 THEN << [n |-> k, v |-> Rat(a, 1)] >> ELSE <<>>)
        \o (IF len - k > 0 THEN << [n |-> len - k, v |-> Rat(b, 1)] >> ELSE <<>>)

----------------------------------------------------------------------------
(* processBufferToSegments (file analysis) *)

\* channelData.slice(start, start + size).length: slice stops at the end of
\* the array.
SliceLength(len, start, size) == Min(len, start + size) - Min(len, start)

\* Number of iterations of  for (i = 0; i < channelData.length; i += bufferSize).
FileFrames(len) == (len + bufferSize - 1) \div bufferSize

\* The lengths of the chunks handed to detectPitch, in order.
FileChunks(len) ==
    [k \in 1 .. FileFrames(len) |-> SliceLength(len, (k - 1) * bufferSize, bufferSize)]

\* pitches: the detector's answer for each chunk, in order.
FilePitches(data, answers) ==
    [k \in 1 .. FileFrames(Length(data)) |-> answers[k]]

\* Faulty variant of FileGated: the lower edge of the gate is rejected too.
FileGatedLowEdge(freq) ==
    freq = null \/ freq = 0 \/ freq <= 60 \/ freq > 1100

\* Faulty variant of FileGated: freq && (freq < 60 || freq > 1100), which lets
\* a missing estimate through.
FileGatedUnlessMissing(freq) ==
    freq # null /\ freq # 0 /\ (freq < 60 \/ freq > 1100)

\* !freq || freq < 60 || freq > 1100
FileGated(freq) ==
    freq = null \/ freq = 0 \/ freq < 60 \/ freq > 1100

\* The second loop: one segment per frame that passes the gate (i is the
\* 0-based frame index).
FileSegments(pitches) ==
    LET frames == [k \in 1 .. Len(pitches) |-> [i |-> k - 1, freq |-> pitches[k]]]
        kept == SelectSeq(frames, LAMBDA p : ~FileGated(p.freq))
    IN  [k \in 1 .. Len(kept) |->
            [startTime |-> kept[k].i * bufferSize,
             endTime   |-> (kept[k].i + 1) * bufferSize,
             freq      |-> Rat(kept[k].freq, 1)]]

processBufferToSegments(data, answers) ==
    LET pitches == FilePitches(data, answers)
    IN  [pitches |-> pitches, segments |-> FileSegments(pitches)]

----------------------------------------------------------------------------
(* analyzeUserAudio (live recording) *)

RECURSIVE MaxAmp(_)
MaxAmp(data) ==
    IF data = <<>> THEN Rat(0, 1)
    ELSE LET a == Rat(Abs(Head(data).v.num), Head(data).v.den)
             m == MaxAmp(Tail(data))
         IN  IF RatLt(m, a) THEN a ELSE m

\* Faulty variant of Normalize: a peak of exactly 0.001 is amplified too.
NormalizeFromThreshold(data) ==
    LET maxAmp == MaxAmp(data)
    IN  IF RatLe(Rat(1, 1), maxAmp)
        THEN [k \in 1 .. Len(data) |->
                [n |-> data[k].n,
                 v |-> Rat(data[k].v.num * 900 * maxAmp.den,
                           data[k].v.den * maxAmp.num)]]
        ELSE data

\* rawData[i] *= gain, with gain = 0.9 / maxAmp, when maxAmp > 0.001.
Normalize(data) ==
    LET maxAmp == MaxAmp(data)
    IN  IF RatLt(Rat(1, 1), maxAmp)
        THEN [k \in 1 .. Len(data) |->
                [n |-> data[k].n,
                 v |-> Rat(data[k].v.num * 900 * maxAmp.den,
                           data[k].v.den * maxAmp.num)]]
        ELSE data

\* Number of iterations of  for (i = 0; i + windowSize <= rawData.length; i += hopSize).
LiveFrames(len) ==
    IF len < windowSize THEN 0 ELSE ((len - windowSize) \div hopSize) + 1

\* The lengths of the chunks handed to detectPitch, in order.
LiveChunks(len) ==
    [k \in 1 .. LiveFrames(len) |-> SliceLength(len, (k - 1) * hopSize, windowSize)]

LivePitches(data, answers) ==
    [k \in 1 .. LiveFrames(Length(data)) |->
        [time |-> (k - 1) * hopSize, freq |-> answers[k]]]

\* !freq || freq < 50 || freq > 1200
LiveGated(freq) ==
    freq = null \/ freq = 0 \/ freq < 50 \/ freq > 1200

\* Faulty variant of RawSegments: a segment lasts one window instead of one hop.
RawSegmentsWindowLong(pitches) ==
    LET kept == SelectSeq(pitches, LAMBDA p : ~LiveGated(p.freq))
    IN  [k \in 1 .. Len(kept) |->
            [startTime |-> kept[k].time,
             endTime   |-> kept[k].time + windowSize,
             freq      |-> Rat(kept[k].freq, 1)]]

\* 3. BUILD RAW SEGMENTS: one segment per frame that passes the gate.
RawSegments(pitches) ==
    LET kept == SelectSeq(pitches, LAMBDA p : ~LiveGated(p.freq))
    IN  [k \in 1 .. Len(kept) |->
            [startTime |-> kept[k].time,
             endTime   |-> kept[k].time + hopSize,
             freq      |-> Rat(kept[k].freq, 1)]]

\* [...].sort((a, b) => a - b)
RECURSIVE Insert(_, _)
Insert(x, sorted) ==
    IF sorted = <<>> THEN << x >>
    ELSE IF RatLe(x, Head(sorted)) THEN << x >> \o sorted
    ELSE << Head(sorted) >> \o Insert(x, Tail(sorted))

RECURSIVE SortNumeric(_)
SortNumeric(list) ==
    IF list = <<>> THEN <<>> ELSE Insert(Head(list), SortNumeric(Tail(list)))

\* Faulty variant of Smooth: the filter runs in place, so it reads the already
\* smoothed value of the previous segment.
RECURSIVE SmoothInPlaceFrom(_, _, _)
SmoothInPlaceFrom(raw, k, before) ==
    IF k > Len(raw) THEN <<>>
    ELSE LET prev == IF k > 1 THEN before ELSE raw[k].freq
             curr == raw[k].freq
             next == IF k < Len(raw) THEN raw[k + 1].freq ELSE curr
             sorted == SortNumeric(<<prev, curr, next>>)
         IN  << [raw[k] EXCEPT !.freq = sorted[2]] >>
             \o SmoothInPlaceFrom(raw, k + 1, sorted[2])

SmoothInPlace(raw) == SmoothInPlaceFrom(raw, 1, Rat(0, 1))

Smooth(raw) ==
    [k \in 1 .. Len(raw) |->
        LET prev == IF k > 1 THEN raw[k - 1].freq ELSE raw[k].freq
            curr == raw[k].freq
            next == IF k < Len(raw) THEN raw[k + 1].freq ELSE curr
            sorted == SortNumeric(<<prev, curr, next>>)
        IN  [raw[k] EXCEPT !.freq = sorted[2]]]

\* Faulty variant of Interpolated: the fraction is s / steps.
InterpolatedOverSteps(cur, next, steps) ==
    [s \in 1 .. steps |->
        [startTime |-> cur.endTime + (s - 1) * hopSize,
         endTime   |-> cur.endTime + s * hopSize,
         freq      |-> Rat(cur.freq.num * next.freq.den * (steps - s)
                             + next.freq.num * cur.freq.den * s,
                           cur.freq.den * next.freq.den * steps)]]

\* Faulty variant of Interpolated: the current frequency is not weighted.
InterpolatedUnweighted(cur, next, steps) ==
    [s \in 1 .. steps |->
        [startTime |-> cur.endTime + (s - 1) * hopSize,
         endTime   |-> cur.endTime + s * hopSize,
         freq      |-> Rat(cur.freq.num * next.freq.den * (steps + 1)
                             + next.freq.num * cur.freq.den * s,
                           cur.freq.den * next.freq.den * (steps + 1))]]

\* The segments pushed by  for (s = 1; s <= steps; s++), with t = s / (steps + 1)
\* and freq = cur.freq * (1 - t) + next.freq * t.
Interpolated(cur, next, steps) ==
    [s \in 1 .. steps |->
        [startTime |-> cur.endTime + (s - 1) * hopSize,
         endTime   |-> cur.endTime + s * hopSize,
         freq      |-> Rat(cur.freq.num * next.freq.den * (steps + 1 - s)
                             + next.freq.num * cur.freq.den * s,
                           cur.freq.den * next.freq.den * (steps + 1))]]

\* The 0-based frames k, below 32, for which the double-precision values of
\* the live analysis put the start of frame k + 1, (k + 1) * 512 / rate, above
\* the end of frame k, k * 512 / rate + 512 / rate, and those for which they
\* put it below; for every other frame below 32 the two values are equal.
StartsLate(rate) ==
    IF rate = 3072 THEN {4, 13, 16, 19, 22}
    ELSE IF rate = 44100 THEN {12, 15, 17, 19}
    ELSE {}

StartsEarly(rate) ==
    IF rate = 3072 THEN {7, 10, 25, 28, 31}
    ELSE IF rate = 44100 THEN {22, 26, 29}
    ELSE {}

\* next.startTime - cur.endTime as the code computes it: the whole part in
\* sample periods, and the sign of what the rounding of the two times leaves
\* when the whole part is 0 (a difference in the last place, far below one
\* sample period).
ComputedGap(cur, next, rate) ==
    [whole   |-> next.startTime - cur.endTime,
     residue |-> IF next.startTime # cur.endTime THEN 0
                 ELSE IF (cur.startTime \div hopSize) \in StartsLate(rate) THEN 1
                 ELSE IF (cur.startTime \div hopSize) \in StartsEarly(rate) THEN 0 - 1
                 ELSE 0]

\* gap > 0
Positive(gap) == gap.whole > 0 \/ (gap.whole = 0 /\ gap.residue > 0)

\* Faulty variant of Fillable: a gap of exactly 1.5 s is filled.
FillableUpTo(gap, rate) == Positive(gap) /\ 2 * gap.whole <= 3 * rate

\* gap > 0 && gap < 1.5
Fillable(gap, rate) == Positive(gap) /\ 2 * gap.whole < 3 * rate

RECURSIVE FillFrom(_, _, _)
FillFrom(smoothed, rate, k) ==
    IF k > Len(smoothed) THEN <<>>
    ELSE << smoothed[k] >>
         \o (IF k < Len(smoothed)
                /\ Fillable(ComputedGap(smoothed[k], smoothed[k + 1], rate), rate)
             THEN LET gap == ComputedGap(smoothed[k], smoothed[k + 1], rate)
                      steps == Max(1, Round(gap.whole, hopSize))
                  IN  Interpolated(smoothed[k], smoothed[k + 1], steps)
             ELSE <<>>)
         \o FillFrom(smoothed, rate, k + 1)

----------------------------------------------------------------------------
(* stableNotes (useMemo) *)

\* Faulty variant of LongEnough: a run of exactly 0.15 s passes.
LongEnoughOrEqual(run, rate) ==
    20 * (run[Len(run)].endTime - run[1].startTime) >= 3 * rate

\* Faulty variant of LongEnough: the threshold is 0.015 s.
LongEnoughHundredths(run, rate) ==
    200 * (run[Len(run)].endTime - run[1].startTime) > 3 * rate

\* duration > 0.15
LongEnough(run, rate) ==
    20 * (run[Len(run)].endTime - run[1].startTime) > 3 * rate

\* Faulty variant of Label: the interval is taken from the note down to the root.
LabelReversed(midi, sargam, root) ==
    IF sargam /\ root # ""
    THEN LET noteOnly == NoteOf(midi)
             rootIndex == IndexOf(root)
         IN  IF rootIndex # -1
             THEN SARGAM_MAPPING[((rootIndex - IndexOf(noteOnly) + 12) % 12) + 1]
             ELSE FullNote(midi)
    ELSE FullNote(midi)

\* Faulty variant of Label: the result of indexOf is not checked.
LabelUnchecked(midi, sargam, root) ==
    IF sargam /\ root # ""
    THEN SARGAM_MAPPING[((IndexOf(NoteOf(midi)) - IndexOf(root) + 12) % 12) + 1]
    ELSE FullNote(midi)

Label(midi, sargam, root) ==
    IF sargam /\ root # ""
    THEN LET noteOnly == NoteOf(midi)
             rootIndex == IndexOf(root)
         IN  IF rootIndex # -1
             THEN SARGAM_MAPPING[((IndexOf(noteOnly) - rootIndex + 12) % 12) + 1]
             ELSE FullNote(midi)
    ELSE FullNote(midi)

\* Faulty variant of processRun: the event carries the run's first frequency instead
\* of the mean.
processRunFirstFreq(run, evs, rate, sargam, root) ==
    IF run = <<>> THEN evs
    ELSE IF LongEnough(run, rate)
    THEN LET avgFreq == run[1].freq
             midi == getMidi(avgFreq)
             label == Label(midi, sargam, root)
         IN  Append(evs, [startTime    |-> run[1].startTime,
                          endTime      |-> run[Len(run)].endTime,
                          avgFreq      |-> avgFreq,
                          midi         |-> midi,
                          label        |-> label,
                          fullNote     |-> FullNote(midi),
                          displayLabel |-> label])
    ELSE evs

\* Faulty variant of processRun: the event is put in front of the list
\* (unshift for push).
processRunUnshift(run, evs, rate, sargam, root) ==
    IF run = <<>> THEN evs
    ELSE IF LongEnough(run, rate)
    THEN LET sum == SumFreq(run)
             avgFreq == Rat(sum.num, sum.den * Len(run))
             midi == getMidi(avgFreq)
             label == Label(midi, sargam, root)
         IN  <<[startTime    |-> run[1].startTime,
                endTime      |-> run[Len(run)].endTime,
                avgFreq      |-> avgFreq,
                midi         |-> midi,
                label        |-> label,
                fullNote     |-> FullNote(midi),
                displayLabel |-> label]>> \o evs
    ELSE evs

\* Faulty variant of processRun: the event's note name is its label.
processRunLabelAsName(run, evs, rate, sargam, root) ==
    IF run = <<>> THEN evs
    ELSE IF LongEnough(run, rate)
    THEN LET sum == SumFreq(run)
             avgFreq == Rat(sum.num, sum.den * Len(run))
             midi == getMidi(avgFreq)
             label == Label(midi, sargam, root)
         IN  Append(evs, [startTime    |-> run[1].startTime,
                          endTime      |-> run[Len(run)].endTime,
                          avgFreq      |-> avgFreq,
                          midi         |-> midi,
                          label        |-> label,
                          fullNote     |-> label,
                          displayLabel |-> label])
    ELSE evs

\* Faulty variant of processRun: the event ends one frame after its run.
processRunEndsLate(run, evs, rate, sargam, root) ==
    IF run = <<>> THEN evs
    ELSE IF LongEnough(run, rate)
    THEN LET sum == SumFreq(run)
             avgFreq == Rat(sum.num, sum.den * Len(run))
             midi == getMidi(avgFreq)
             label == Label(midi, sargam, root)
         IN  Append(evs, [startTime    |-> run[1].startTime,
                          endTime      |-> run[Len(run)].endTime
                                              + (run[1].endTime - run[1].startTime),
                          avgFreq      |-> avgFreq,
                          midi         |-> midi,
                          label        |-> label,
                          fullNote     |-> FullNote(midi),
                          displayLabel |-> label])
    ELSE evs

\* The events list after processRun(run).
processRun(run, evs, rate, sargam, root) ==
    IF run = <<>> THEN evs
    ELSE IF LongEnough(run, rate)
    THEN LET sum == SumFreq(run)
             avgFreq == Rat(sum.num, sum.den * Len(run))
             midi == getMidi(avgFreq)
             label == Label(midi, sargam, root)
         IN  Append(evs, [startTime    |-> run[1].startTime,
                          endTime      |-> run[Len(run)].endTime,
                          avgFreq      |-> avgFreq,
                          midi         |-> midi,
                          label        |-> label,
                          fullNote     |-> FullNote(midi),
                          displayLabel |-> label])
    ELSE evs

\* Faulty variant of Continues: the time gap is not looked at.
ContinuesAnyGap(prev, seg, rate) ==
    getMidi(prev.freq) = getMidi(seg.freq)

\* Faulty variant of Continues: the MIDI numbers are not compared.
ContinuesAnyPitch(prev, seg, rate) ==
    10 * (seg.startTime - prev.endTime) < rate

\* Faulty variant of Continues: a neighbouring semitone continues the run.
ContinuesNearPitch(prev, seg, rate) ==
    /\ Abs(getMidi(prev.freq) - getMidi(seg.freq)) <= 1
    /\ 10 * (seg.startTime - prev.endTime) < rate

\* prevMidi === currMidi && (seg.startTime - prev.endTime) < 0.1
Continues(prev, seg, rate) ==
    /\ getMidi(prev.freq) = getMidi(seg.freq)
    /\ 10 * (seg.startTime - prev.endTime) < rate

----------------------------------------------------------------------------
(* App: getDisplayNote *)

\* A currentNote of null.
NoNote == [note |-> "", frequency |-> Rat(0, 1)]

\* note.replace(/[0-9]/, ""): the note name without its first digit.  A note
\* name is a pitch-class name followed by the octave in decimal.
StripFirstDigit(note) ==
    LET p == CHOOSE q \in (1 .. Len(NOTES)) \X (-9 .. 99) :
                NOTES[q[1]] \o ToString(q[2]) = note
        name == NOTES[p[1]]
        octave == p[2]
    IN  IF octave < 0 THEN name \o "-"
        ELSE IF octave < 10 THEN name
        ELSE name \o ToString(octave % 10)

getDisplayNote(noteObj, sargam, root) ==
    IF noteObj = NoNote THEN [main |-> "--", sub |-> "Listening..."]
    ELSE LET hz == ToString(Round(noteObj.frequency.num, noteObj.frequency.den)) \o " Hz"
         IN  IF ~sargam THEN [main |-> noteObj.note, sub |-> hz]
             ELSE LET rootIndex == IndexOf(root)
                      noteIndex == IndexOf(StripFirstDigit(noteObj.note))
                  IN  IF rootIndex = -1 \/ noteIndex = -1
                      THEN [main |-> noteObj.note, sub |-> "Unknown"]
                      ELSE [main |-> SARGAM_MAPPING[((noteIndex - rootIndex + 12) % 12) + 1],
                            sub  |-> noteObj.note \o " / " \o hz]

----------------------------------------------------------------------------
(* Inputs *)

SeqsUpTo(S, len) == UNION {[1 .. k -> S] : k \in 0 .. len}

\* Sample rates of the decoded file (WaveSurfer decodes at 8000 Hz by
\* default; 40960 Hz makes three frames last exactly 0.15 s and two frames
\* exactly 0.1 s).
FileRates == {8000, 40960}

\* Sample rates of the recording's AudioContext (at 3072 Hz nine hops last
\* exactly 1.5 s).
MicRates == {3072, 44100}

\* Detector answers: every list of up to MaxFrames answers over a small
\* alphabet, and single answers around the gates and for each pitch class.
FileAnswers ==
    SeqsUpTo({null, 440, 450, 466}, MaxFrames)
    \cup [1 .. 1 -> {0, 59, 60, 1100, 1101,
                     262, 277, 294, 311, 330, 349, 370, 392, 415, 494}]

\* Gaps, in hops, just below and at the 1.5 s limit of the gap filler.
LongGaps(rate) ==
    LET limit == ((3 * rate) + (2 * hopSize) - 1) \div (2 * hopSize)
    IN  {limit - 1, limit}

\* The first frame of each kind of StartsLate and StartsEarly: two voiced
\* frames that follow that many unvoiced ones meet every outcome of the
\* rounding.
LatePairs(rate) ==
    IF rate = 3072 THEN {4, 7} ELSE IF rate = 44100 THEN {12, 22} ELSE {}

LiveAnswers(rate) ==
    SeqsUpTo({null, 220, 225, 880}, MaxFrames)
    \cup [1 .. 1 -> {0, 49, 50, 55, 1200, 1201}]
    \cup {<<a>> \o [k \in 1 .. g |-> null] \o <<b>> :
            a \in {220}, b \in {220, 880}, g \in LongGaps(rate)}
    \cup {[k \in 1 .. g |-> null] \o <<a, b>> :
            a \in {220}, b \in {220, 225}, g \in LatePairs(rate)}

\* Lengths of a file buffer cut into frames chunks: the last chunk full, or
\* of a single sample.
FileLengths(frames) ==
    IF frames = 0 THEN {0}
    ELSE {frames * bufferSize, (frames - 1) * bufferSize + 1}

\* Lengths of a recording that holds frames windows.
LiveLengths(frames) ==
    IF frames = 0 THEN {0, windowSize - 1}
    ELSE {windowSize + (frames - 1) * hopSize,
          windowSize + (frames - 1) * hopSize + hopSize - 1}

\* <<first sample, every other sample>>, in 1/1000 of full scale.
Amplitudes ==
    {<<0, 0>>, <<1, 0>>, <<0 - 1, 1>>, <<2, 0 - 1>>, <<0 - 500, 250>>, <<300, 1000>>}

RootKeys == {NOTES[k] : k \in 1 .. Len(NOTES)} \cup {"", "H"}

\* Playback positions, in sample periods: the frame boundaries of the file
\* pipeline, the middle of each frame, and one sample either side of each
\* boundary.
Times ==
    UNION {{k * bufferSize, (k * bufferSize) + 1, (k * bufferSize) + (bufferSize \div 2),
            ((k + 1) * bufferSize) - 1} : k \in 0 .. MaxFrames}

----------------------------------------------------------------------------
(* The component *)

\* What the timeupdate handler of the first WaveSurfer closes over: the
\* initial values of useState([]) and useState(0).
NoHandler == [pitchData |-> <<>>, decodingDuration |-> 0]

\* No analysis raised.
NoFault == [file |-> FALSE, live |-> "none"]

\* Nothing was recorded and no analysis raised.
NoSession ==
    /\ handler = NoHandler
    /\ fault = NoFault
    /\ appRecording = FALSE
    /\ isRecording = FALSE
    /\ waiting = 0
    /\ recorders = <<>>
    /\ mediaRecorderRef = 0

Init ==
    /\ \/ /\ pending = "ready"
          /\ sampleRate \in FileRates
          /\ yin \in FileAnswers
          /\ \E len \in FileLengths(Len(yin)) :
                channelData = Samples(len, 1, 2, 0 - 1)
       \/ /\ pending = "onstop"
          /\ sampleRate \in MicRates
          /\ yin \in LiveAnswers(sampleRate)
          /\ \E len \in LiveLengths(Len(yin)), amp \in Amplitudes :
                channelData = Samples(len, 1, amp[1], amp[2])
    /\ chunks = <<>>
    /\ pitchData = <<>>
    /\ decodingDuration = 0
    /\ pitchSegments = <<>>
    /\ userPitches = <<>>
    /\ rawSegments = <<>>
    /\ smoothedSegments = <<>>
    /\ userPitchSegments = <<>>
    /\ showSargam = TRUE
    /\ rootKey = "C"
    /\ memo = "idle"
    /\ i = 0
    /\ currentRun = <<>>
    /\ events = <<>>
    /\ stableNotes = <<>>
    /\ isReady = FALSE
    /\ time = null
    /\ activeNote = ""
    /\ currentNote = NoNote
    /\ conversion = NoConversion
    /\ NoSession

\* Faulty variant of AnalyzePitch: the segments go through the median filter of
\* the recording's analysis before they are stored.
AnalyzePitchSmoothed ==
    /\ pending = "ready"
    /\ memo = "idle"
    /\ LET r == processBufferToSegments(channelData, yin)
       IN  /\ pitchData' = r.pitches
           /\ decodingDuration' = Length(channelData)
           /\ chunks' = FileChunks(Length(channelData))
           /\ pitchSegments' = Smooth(r.segments)
    /\ pending' = "none"
    /\ memo' = "stale"
    /\ isReady' = TRUE
    /\ UNCHANGED <<bufferVars, liveVars, labelVars, i, currentRun, events, stableNotes,
                   time, activeNote, currentNote, conversion>>
    /\ UNCHANGED <<effectVars, recVars>>

\* ws.on('ready'): analyzePitch(ws.getDecodedData())
AnalyzePitch ==
    /\ pending = "ready"
    /\ memo = "idle"
    /\ LET r == processBufferToSegments(channelData, yin)
       IN  /\ pitchData' = r.pitches
           /\ decodingDuration' = Length(channelData)
           /\ chunks' = FileChunks(Length(channelData))
           /\ pitchSegments' = r.segments
    /\ pending' = "none"
    /\ memo' = "stale"
    /\ isReady' = TRUE
    /\ UNCHANGED <<bufferVars, liveVars, labelVars, i, currentRun, events, stableNotes,
                   time, activeNote, currentNote, conversion>>
    /\ UNCHANGED <<effectVars, recVars>>

\* Faulty variant of AnalyzeUserAudio: the result goes to setPitchSegments, the
\* state the aggregation reads.
AnalyzeUserAudioShared ==
    /\ pending = "onstop"
    /\ memo = "idle"
    /\ LET rawData == Normalize(channelData)
           pitches == LivePitches(rawData, yin)
           raw == RawSegments(pitches)
           smoothed == Smooth(raw)
       IN  /\ channelData' = rawData
           /\ chunks' = LiveChunks(Length(rawData))
           /\ userPitches' = pitches
           /\ rawSegments' = raw
           /\ smoothedSegments' = smoothed
           /\ pitchSegments' = FillFrom(smoothed, sampleRate, 1)
    /\ pending' = "none"
    /\ memo' = "stale"
    /\ UNCHANGED <<sampleRate, yin, pitchData, decodingDuration, userPitchSegments,
                   labelVars, i, currentRun, events, stableNotes, playVars, conversion>>
    /\ UNCHANGED <<effectVars, recVars>>

\* mediaRecorder.onstop: setUserPitchSegments(await analyzeUserAudio(audioBuffer))
AnalyzeUserAudio ==
    /\ pending = "onstop"
    /\ LET rawData == Normalize(channelData)
           pitches == LivePitches(rawData, yin)
           raw == RawSegments(pitches)
           smoothed == Smooth(raw)
       IN  /\ channelData' = rawData
           /\ chunks' = LiveChunks(Length(rawData))
           /\ userPitches' = pitches
           /\ rawSegments' = raw
           /\ smoothedSegments' = smoothed
           /\ userPitchSegments' = FillFrom(smoothed, sampleRate, 1)
    /\ pending' = "none"
    /\ UNCHANGED <<sampleRate, yin, fileVars, labelVars, memoVars, playVars, conversion>>
    /\ UNCHANGED <<effectVars, recVars>>

\* The parent renders the component with another rootKey.
SetRootKey ==
    /\ memo = "idle"
    /\ \E key \in RootKeys \ {rootKey} : rootKey' = key
    /\ memo' = "stale"
    /\ UNCHANGED <<pending, bufferVars, chunks, conversion, fileVars, liveVars, showSargam,
                   i, currentRun, events, stableNotes, playVars>>
    /\ UNCHANGED <<effectVars, recVars>>

\* setShowSargam(!showSargam)
ToggleSargam ==
    /\ memo = "idle"
    /\ showSargam' = ~showSargam
    /\ memo' = "stale"
    /\ UNCHANGED <<pending, bufferVars, chunks, conversion, fileVars, liveVars, rootKey,
                   i, currentRun, events, stableNotes, playVars>>
    /\ UNCHANGED <<effectVars, recVars>>

\* useMemo runs its function: the early return, or the start of the walk.
StableNotesBegin ==
    /\ memo = "stale"
    /\ IF pitchSegments = <<>>
       THEN /\ stableNotes' = <<>>
            /\ memo' = "idle"
            /\ UNCHANGED <<i, currentRun, events>>
       ELSE /\ events' = <<>>
            /\ currentRun' = <<>>
            /\ i' = 1
            /\ memo' = "loop"
            /\ UNCHANGED stableNotes
    /\ UNCHANGED <<pending, bufferVars, chunks, conversion, fileVars, liveVars, labelVars, playVars>>
    /\ UNCHANGED <<effectVars, recVars>>

\* One iteration of  for (let i = 0; i < pitchSegments.length; i++).
StableNotesStep ==
    /\ memo = "loop"
    /\ i <= Len(pitchSegments)
    /\ LET seg == pitchSegments[i]
       IN  IF currentRun # <<>>
           THEN IF Continues(currentRun[Len(currentRun)], seg, sampleRate)
                THEN /\ currentRun' = Append(currentRun, seg)
                     /\ UNCHANGED events
                ELSE /\ events' = processRun(currentRun, events, sampleRate,
                                             showSargam, rootKey)
                     /\ currentRun' = << seg >>
           ELSE /\ currentRun' = << seg >>
                /\ UNCHANGED events
    /\ i' = i + 1
    /\ UNCHANGED <<pending, bufferVars, chunks, conversion, fileVars, liveVars, labelVars, memo, stableNotes,
                   playVars>>
    /\ UNCHANGED <<effectVars, recVars>>

\* processRun(currentRun); return events;
StableNotesEnd ==
    /\ memo = "loop"
    /\ i > Len(pitchSegments)
    /\ stableNotes' = processRun(currentRun, events, sampleRate, showSargam, rootKey)
    /\ memo' = "idle"
    /\ i' = 0
    /\ currentRun' = <<>>
    /\ events' = <<>>
    /\ UNCHANGED <<pending, bufferVars, chunks, conversion, fileVars, liveVars, labelVars, playVars>>
    /\ UNCHANGED <<effectVars, recVars>>

\* Faulty variant of find: the event's end is not part of its interval.
findHalfOpen(list, t) ==
    SelectSeq(list, LAMBDA e : t >= e.startTime /\ t < e.endTime)

\* stableNotes.find(e => time >= e.startTime && time <= e.endTime): the
\* matching events in list order; find returns the first, or undefined.
find(list, t) ==
    SelectSeq(list, LAMBDA e : t >= e.startTime /\ t <= e.endTime)

\* checkPitch, run by the 50 ms interval and by 'audioprocess' and 'seeking'
\* (the effect is registered once isReady, with the memoized stableNotes).
CheckPitch ==
    /\ isReady
    /\ memo = "idle"
    /\ \E t \in Times :
          /\ time' = t
          /\ LET found == find(stableNotes, t)
             IN  IF found # <<>>
                 THEN /\ activeNote' = found[1].fullNote
                      /\ currentNote' = [note |-> found[1].fullNote,
                                         frequency |-> found[1].avgFreq]
                 ELSE /\ activeNote' = ""
                      /\ currentNote' = NoNote
    /\ UNCHANGED <<pending, bufferVars, chunks, conversion, fileVars, liveVars, labelVars, memoVars, isReady>>
    /\ UNCHANGED <<effectVars, recVars>>

Next ==
    \/ AnalyzePitch
    \/ AnalyzeUserAudio
    \/ StableNotesBegin
    \/ StableNotesStep
    \/ StableNotesEnd
    \/ CheckPitch

\* The component under the App's initial props.
Spec == Init /\ [][Next]_vars

----------------------------------------------------------------------------
(* The component under changing label props *)

\* A file decoded at WaveSurfer's default rate: one frame of any of the twelve
\* pitch classes (C4 .. B4), or up to MaxNotes frames of C4, D4, G4 and C5.
InitLabels ==
    /\ pending = "ready"
    /\ sampleRate = 8000
    /\ yin \in [1 .. 1 -> {262, 277, 294, 311, 330, 349, 370, 392, 415, 440, 466, 494}]
               \cup SeqsUpTo({262, 294, 392, 523}, MaxNotes)
    /\ channelData = Samples(Len(yin) * bufferSize, 1, 2, 0 - 1)
    /\ chunks = <<>>
    /\ pitchData = <<>>
    /\ decodingDuration = 0
    /\ pitchSegments = <<>>
    /\ userPitches = <<>>
    /\ rawSegments = <<>>
    /\ smoothedSegments = <<>>
    /\ userPitchSegments = <<>>
    /\ showSargam = TRUE
    /\ rootKey = "C"
    /\ memo = "idle"
    /\ i = 0
    /\ currentRun = <<>>
    /\ events = <<>>
    /\ stableNotes = <<>>
    /\ isReady = FALSE
    /\ time = null
    /\ activeNote = ""
    /\ currentNote = NoNote
    /\ conversion = NoConversion
    /\ NoSession

NextLabels ==
    \/ AnalyzePitch
    \/ SetRootKey
    \/ ToggleSargam
    \/ StableNotesBegin
    \/ StableNotesStep
    \/ StableNotesEnd

SpecLabels == InitLabels /\ [][NextLabels]_vars

----------------------------------------------------------------------------
(* The analyses called with a buffer whose sampleRate is not positive *)

\* Sample rates no AudioBuffer has, but which the two analyses accept.
InvalidRates == {0, 0 - 1, 0 - 44100}

\* YIN returns sampleRate / tau or null: with a sample rate that is not
\* positive, every answer is null, 0 or negative.
InvalidRateAnswers == SeqsUpTo({null, 0, 0 - 2}, MaxFrames)

InitInvalidRate ==
    /\ sampleRate \in InvalidRates
    /\ yin \in InvalidRateAnswers
    /\ \/ /\ pending = "ready"
          /\ \E len \in FileLengths(Len(yin)) :
                channelData = Samples(len, 1, 2, 0 - 1)
       \/ /\ pending = "onstop"
          /\ \E len \in LiveLengths(Len(yin)) :
                channelData = Samples(len, 1, 300, 1000)
    /\ chunks = <<>>
    /\ pitchData = <<>>
    /\ decodingDuration = 0
    /\ pitchSegments = <<>>
    /\ userPitches = <<>>
    /\ rawSegments = <<>>
    /\ smoothedSegments = <<>>
    /\ userPitchSegments = <<>>
    /\ showSargam = TRUE
    /\ rootKey = "C"
    /\ memo = "idle"
    /\ i = 0
    /\ currentRun = <<>>
    /\ events = <<>>
    /\ stableNotes = <<>>
    /\ isReady = FALSE
    /\ time = null
    /\ activeNote = ""
    /\ currentNote = NoNote
    /\ conversion = NoConversion
    /\ NoSession

NextInvalidRate ==
    \/ AnalyzePitch
    \/ AnalyzeUserAudio
    \/ StableNotesBegin

SpecInvalidRate == InitInvalidRate /\ [][NextInvalidRate]_vars

----------------------------------------------------------------------------
(* The two pitch conversions applied one after the other *)

\* Frequencies of the band 50 .. 1200 Hz: every whole number of hertz, and
\* the hundredths of a hertz either side of each boundary between two MIDI
\* numbers.
Frequencies ==
    {Rat(hz, 1) : hz \in 50 .. 1200}
    \cup {Rat(c, 100) : c \in {b \in UNION {{MidiLow[k] \div 10, (MidiLow[k] \div 10) + 1} :
                                              k \in DOMAIN MidiLow} :
                                5000 <= b /\ b <= 120000}}

InitRoundTrip ==
    /\ pending = "none"
    /\ sampleRate = 8000
    /\ channelData = <<>>
    /\ yin = <<>>
    /\ chunks = <<>>
    /\ pitchData = <<>>
    /\ decodingDuration = 0
    /\ pitchSegments = <<>>
    /\ userPitches = <<>>
    /\ rawSegments = <<>>
    /\ smoothedSegments = <<>>
    /\ userPitchSegments = <<>>
    /\ showSargam = TRUE
    /\ rootKey = "C"
    /\ memo = "idle"
    /\ i = 0
    /\ currentRun = <<>>
    /\ events = <<>>
    /\ stableNotes = <<>>
    /\ isReady = FALSE
    /\ time = null
    /\ activeNote = ""
    /\ currentNote = NoNote
    /\ \E f \in Frequencies : conversion = [NoConversion EXCEPT !.freq = f]
    /\ NoSession

\* getMidi(freq)
ToMidi ==
    /\ conversion.freq # Rat(0, 1)
    /\ conversion.midi = null
    /\ conversion' = [conversion EXCEPT !.midi = getMidi(conversion.freq)]
    /\ UNCHANGED <<pending, bufferVars, chunks, fileVars, liveVars, labelVars, memoVars,
                   playVars>>
    /\ UNCHANGED <<effectVars, recVars>>

\* freqCenter of that MIDI number
ToFrequency ==
    /\ conversion.midi # null
    /\ conversion.center = Rat(0, 1)
    /\ conversion' = [conversion EXCEPT !.center = freqCenter(conversion.midi)]
    /\ UNCHANGED <<pending, bufferVars, chunks, fileVars, liveVars, labelVars, memoVars,
                   playVars>>
    /\ UNCHANGED <<effectVars, recVars>>

NextRoundTrip ==
    \/ ToMidi
    \/ ToFrequency

SpecRoundTrip == InitRoundTrip /\ [][NextRoundTrip]_vars

----------------------------------------------------------------------------
(* A file of 0.3 s of 440 Hz, 0.05 s of silence and 0.3 s of 440 Hz *)

\* The three stretches of the buffer at 44100 Hz, in samples.
ToneLength == (3 * 44100) \div 10
SilenceLength == (5 * 44100) \div 100

\* The buffer: the samples stand for their envelope (the file analysis reads
\* them through the detector only).
ToneSilenceTone ==
    << [n |-> ToneLength, v |-> Rat(500, 1)],
       [n |-> SilenceLength, v |-> Rat(0, 1)],
       [n |-> ToneLength, v |-> Rat(500, 1)] >>

\* The chunks (1-based) that are full and lie wholly inside one of the two
\* tones.
PureToneChunks ==
    {k \in 1 .. FileFrames(Length(ToneSilenceTone)) :
        \/ k * bufferSize <= ToneLength
        \/ /\ (k - 1) * bufferSize >= ToneLength + SilenceLength
           /\ k * bufferSize <= Length(ToneSilenceTone)}

\* What the detector may answer on any other chunk: no pitch, values outside
\* the gate, values at the edges of A4 and in the neighbouring semitones,
\* and the octaves of the tone.
OtherAnswers == {null, 0, 59, 1101, 220, 415, 428, 440, 452, 453, 880}

InitToneSilenceTone ==
    /\ pending = "ready"
    /\ sampleRate = 44100
    /\ channelData = ToneSilenceTone
    /\ \E other \in [(1 .. FileFrames(Length(ToneSilenceTone))) \ PureToneChunks
                        -> OtherAnswers] :
          yin = [k \in 1 .. FileFrames(Length(ToneSilenceTone)) |->
                    IF k \in PureToneChunks THEN 440 ELSE other[k]]
    /\ chunks = <<>>
    /\ pitchData = <<>>
    /\ decodingDuration = 0
    /\ pitchSegments = <<>>
    /\ userPitches = <<>>
    /\ rawSegments = <<>>
    /\ smoothedSegments = <<>>
    /\ userPitchSegments = <<>>
    /\ showSargam = TRUE
    /\ rootKey = "C"
    /\ memo = "idle"
    /\ i = 0
    /\ currentRun = <<>>
    /\ events = <<>>
    /\ stableNotes = <<>>
    /\ isReady = FALSE
    /\ time = null
    /\ activeNote = ""
    /\ currentNote = NoNote
    /\ conversion = NoConversion
    /\ NoSession

NextToneSilenceTone ==
    \/ AnalyzePitch
    \/ StableNotesBegin
    \/ StableNotesStep
    \/ StableNotesEnd

SpecToneSilenceTone == InitToneSilenceTone /\ [][NextToneSilenceTone]_vars

----------------------------------------------------------------------------
(* A file of 0.3 s of 440 Hz followed at once by 0.3 s of 880 Hz *)

\* The buffer at 44100 Hz: the samples stand for their envelope.
OctaveJump ==
    << [n |-> ToneLength, v |-> Rat(500, 1)],
       [n |-> ToneLength, v |-> Rat(400, 1)] >>

\* The full chunks (1-based) that lie wholly inside the first tone, and
\* wholly inside the second.
LowToneChunks ==
    {k \in 1 .. FileFrames(Length(OctaveJump)) : k * bufferSize <= ToneLength}

HighToneChunks ==
    {k \in 1 .. FileFrames(Length(OctaveJump)) :
        /\ (k - 1) * bufferSize >= ToneLength
        /\ k * bufferSize <= Length(OctaveJump)}

\* What the detector may answer on the chunk that straddles the jump and on
\* the short last chunk.
JumpAnswers == OtherAnswers \cup {660, 831, 856, 905, 933}

InitOctaveJump ==
    /\ pending = "ready"
    /\ sampleRate = 44100
    /\ channelData = OctaveJump
    /\ \E other \in [(1 .. FileFrames(Length(OctaveJump)))
                        \ (LowToneChunks \cup HighToneChunks) -> JumpAnswers] :
          yin = [k \in 1 .. FileFrames(Length(OctaveJump)) |->
                    IF k \in LowToneChunks THEN 440
                    ELSE IF k \in HighToneChunks THEN 880
                    ELSE other[k]]
    /\ chunks = <<>>
    /\ pitchData = <<>>
    /\ decodingDuration = 0
    /\ pitchSegments = <<>>
    /\ userPitches = <<>>
    /\ rawSegments = <<>>
    /\ smoothedSegments = <<>>
    /\ userPitchSegments = <<>>
    /\ showSargam = TRUE
    /\ rootKey = "C"
    /\ memo = "idle"
    /\ i = 0
    /\ currentRun = <<>>
    /\ events = <<>>
    /\ stableNotes = <<>>
    /\ isReady = FALSE
    /\ time = null
    /\ activeNote = ""
    /\ currentNote = NoNote
    /\ conversion = NoConversion
    /\ NoSession

NextOctaveJump ==
    \/ AnalyzePitch
    \/ StableNotesBegin
    \/ StableNotesStep
    \/ StableNotesEnd

SpecOctaveJump == InitOctaveJump /\ [][NextOctaveJump]_vars

----------------------------------------------------------------------------
(* Loading another file into the player *)

\* The files the user may pick: the detector's answers per chunk; each file
\* is as long as its chunks.
ReloadAnswers ==
    {<<>>, <<440>>, <<494>>, <<440, 440>>, <<null, 494>>, <<262, null, 262>>}

\* App's currentNote after the timeupdate handler that closes over data and
\* duration ran at currentTime; note is currentNote before it.  pitchData[index]
\* is undefined past the end of the array.
timeupdate(data, duration, currentTime, note) ==
    IF Len(data) > 0 /\ duration > 0
    THEN LET index == (currentTime * Len(data)) \div duration
             frequency == IF index + 1 \in DOMAIN data THEN data[index + 1] ELSE null
         IN  IF frequency # null /\ frequency # 0
             THEN [note |-> getNote(Rat(frequency, 1)), frequency |-> Rat(frequency, 1)]
             ELSE NoNote
    ELSE note

\* handleFileChange, the render it causes, and the effect that creates the
\* WaveSurfer of the new file: the handlers registered by the effect close
\* over the state of that render, the setters act on the next one.
\* pitchSegments and decodingDuration are not reset.
LoadFile ==
    /\ memo = "idle"
    /\ pending # "onstop"
    /\ \E answers \in ReloadAnswers :
          /\ yin' = answers
          /\ channelData' = Samples(Len(answers) * bufferSize, 1, 2, 0 - 1)
    /\ handler' = [pitchData |-> pitchData, decodingDuration |-> decodingDuration]
    /\ isReady' = FALSE
    /\ pitchData' = <<>>
    /\ currentNote' = NoNote
    /\ pending' = "ready"
    /\ fault' = [fault EXCEPT !.file = FALSE]
    /\ UNCHANGED <<sampleRate, chunks, decodingDuration, pitchSegments, liveVars,
                   labelVars, memoVars, time, activeNote, conversion, recVars>>

\* ws.on('timeupdate', ...) at a playback position of the loaded file.
TimeUpdate ==
    /\ isReady
    /\ memo = "idle"
    /\ \E t \in Times :
          /\ t <= Length(channelData)
          /\ time' = t
          /\ currentNote' = timeupdate(handler.pitchData, handler.decodingDuration,
                                       t, currentNote)
    /\ UNCHANGED <<pending, bufferVars, chunks, conversion, fileVars, liveVars,
                   labelVars, memoVars, isReady, activeNote, effectVars, recVars>>

InitReload ==
    /\ pending = "ready"
    /\ sampleRate = 8000
    /\ yin \in ReloadAnswers
    /\ channelData = Samples(Len(yin) * bufferSize, 1, 2, 0 - 1)
    /\ chunks = <<>>
    /\ pitchData = <<>>
    /\ decodingDuration = 0
    /\ pitchSegments = <<>>
    /\ userPitches = <<>>
    /\ rawSegments = <<>>
    /\ smoothedSegments = <<>>
    /\ userPitchSegments = <<>>
    /\ showSargam = TRUE
    /\ rootKey = "C"
    /\ memo = "idle"
    /\ i = 0
    /\ currentRun = <<>>
    /\ events = <<>>
    /\ stableNotes = <<>>
    /\ isReady = FALSE
    /\ time = null
    /\ activeNote = ""
    /\ currentNote = NoNote
    /\ conversion = NoConversion
    /\ NoSession

NextReload ==
    \/ LoadFile
    \/ AnalyzePitch
    \/ StableNotesBegin
    \/ StableNotesStep
    \/ StableNotesEnd
    \/ TimeUpdate
    \/ CheckPitch

SpecReload == InitReload /\ [][NextReload]_vars

----------------------------------------------------------------------------
(* Recording *)

\* What decodeAudioData may give for a recorded blob: the detector's answers
\* per window.
RecordedAnswers == {<<>>, <<220>>, <<220, null, 225>>}

\* A MediaRecorder that has just been started on its stream.
NewRecorder ==
    [state |-> "recording", onstop |-> "none", tracks |-> TRUE,
     completed |-> 0, segments |-> <<>>]

\* handleRecordToggle: stopRecording() and setIsRecording(false), or
\* startRecording(), which suspends at  await getUserMedia,  and
\* setIsRecording(true).  stopRecording stops the recorder of
\* mediaRecorderRef if there is one and it is not inactive; its stop event
\* is then queued.
ToggleRecord ==
    /\ memo = "idle"
    /\ IF appRecording
       THEN /\ IF mediaRecorderRef # 0 /\ recorders[mediaRecorderRef].state # "inactive"
               THEN /\ recorders' = [recorders EXCEPT
                                        ![mediaRecorderRef].state = "inactive",
                                        ![mediaRecorderRef].onstop = "queued"]
                    /\ isRecording' = FALSE
               ELSE UNCHANGED <<recorders, isRecording>>
            /\ appRecording' = FALSE
            /\ UNCHANGED waiting
       ELSE /\ waiting + Len(recorders) < MaxRecorders
            /\ waiting' = waiting + 1
            /\ appRecording' = TRUE
            /\ UNCHANGED <<recorders, isRecording>>
    /\ UNCHANGED <<pending, bufferVars, chunks, conversion, fileVars, liveVars,
                   labelVars, memoVars, playVars, effectVars, mediaRecorderRef>>

\* getUserMedia resolves: the rest of startRecording creates the recorder,
\* stores it in mediaRecorderRef and starts it.
GetUserMediaResolves ==
    /\ memo = "idle"
    /\ waiting > 0
    /\ waiting' = waiting - 1
    /\ recorders' = Append(recorders, NewRecorder)
    /\ mediaRecorderRef' = Len(recorders) + 1
    /\ isRecording' = TRUE
    /\ UNCHANGED <<pending, bufferVars, chunks, conversion, fileVars, liveVars,
                   labelVars, memoVars, playVars, effectVars, appRecording>>

\* getUserMedia rejects: the catch of startRecording logs the error.
GetUserMediaRejects ==
    /\ memo = "idle"
    /\ waiting > 0
    /\ waiting' = waiting - 1
    /\ UNCHANGED <<pending, bufferVars, chunks, conversion, fileVars, liveVars,
                   labelVars, memoVars, playVars, effectVars, appRecording,
                   isRecording, recorders, mediaRecorderRef>>

\* onstop up to  await analyzeUserAudio(audioBuffer):  the blob was decoded.
OnStopDecoded ==
    /\ memo = "idle"
    /\ pending = "none"
    /\ \E r \in DOMAIN recorders :
          /\ recorders[r].onstop = "queued"
          /\ recorders' = [recorders EXCEPT ![r].onstop = "analysing"]
    /\ \E rate \in MicRates, answers \in RecordedAnswers :
          /\ sampleRate' = rate
          /\ yin' = answers
          /\ \E len \in LiveLengths(Len(answers)) :
                channelData' = Samples(len, 1, 300, 1000)
    /\ pending' = "onstop"
    /\ fault' = [fault EXCEPT !.live = "none"]
    /\ UNCHANGED <<chunks, conversion, fileVars, liveVars, labelVars, memoVars,
                   playVars, handler, appRecording, isRecording, waiting,
                   mediaRecorderRef>>

\* onstop when decodeAudioData rejects: the handler's promise is rejected
\* and nothing after the await runs.
OnStopDecodeFails ==
    /\ memo = "idle"
    /\ \E r \in DOMAIN recorders :
          /\ recorders[r].onstop = "queued"
          /\ recorders' = [recorders EXCEPT ![r].onstop = "rejected"]
    /\ UNCHANGED <<pending, bufferVars, chunks, conversion, fileVars, liveVars,
                   labelVars, memoVars, playVars, effectVars, appRecording,
                   isRecording, waiting, mediaRecorderRef>>

\* onstop after the analysis: setUserPitchSegments(segments),
\* onRecordingComplete({ blob, segments }) and the stop of every track.
OnStopComplete ==
    /\ memo = "idle"
    /\ pending = "none"
    /\ \E r \in DOMAIN recorders :
          /\ recorders[r].onstop = "analysing"
          /\ recorders' = [recorders EXCEPT
                              ![r].onstop = "done",
                              ![r].tracks = FALSE,
                              ![r].completed = @ + 1,
                              ![r].segments = userPitchSegments]
    /\ UNCHANGED <<pending, bufferVars, chunks, conversion, fileVars, liveVars,
                   labelVars, memoVars, playVars, effectVars, appRecording,
                   isRecording, waiting, mediaRecorderRef>>

InitRecording ==
    /\ pending = "ready"
    /\ sampleRate = 8000
    /\ yin \in {<<440>>, <<>>}
    /\ channelData = Samples(Len(yin) * bufferSize, 1, 2, 0 - 1)
    /\ chunks = <<>>
    /\ pitchData = <<>>
    /\ decodingDuration = 0
    /\ pitchSegments = <<>>
    /\ userPitches = <<>>
    /\ rawSegments = <<>>
    /\ smoothedSegments = <<>>
    /\ userPitchSegments = <<>>
    /\ showSargam = TRUE
    /\ rootKey = "C"
    /\ memo = "idle"
    /\ i = 0
    /\ currentRun = <<>>
    /\ events = <<>>
    /\ stableNotes = <<>>
    /\ isReady = FALSE
    /\ time = null
    /\ activeNote = ""
    /\ currentNote = NoNote
    /\ conversion = NoConversion
    /\ NoSession

NextRecording ==
    \/ AnalyzePitch
    \/ StableNotesBegin
    \/ StableNotesStep
    \/ StableNotesEnd
    \/ ToggleRecord
    \/ GetUserMediaResolves
    \/ GetUserMediaRejects
    \/ OnStopDecoded
    \/ OnStopDecodeFails
    \/ AnalyzeUserAudio
    \/ OnStopComplete

SpecRecording == InitRecording /\ [][NextRecording]_vars

----------------------------------------------------------------------------
(* An analysis that raises *)

\* Where the live analysis may raise: at buffer.getChannelData(0), in the
\* detector after the normalization, or in the gap filling.
LiveStages == {"channel", "detect", "fill"}

\* Faulty variant of AnalyzePitchThrows: the catch publishes an empty analysis.
AnalyzePitchThrowsCleared ==
    /\ pending = "ready"
    /\ memo = "idle"
    /\ isReady' = TRUE
    /\ pending' = "none"
    /\ fault' = [fault EXCEPT !.file = TRUE]
    /\ pitchSegments' = <<>>
    /\ memo' = "stale"
    /\ UNCHANGED <<bufferVars, chunks, conversion, pitchData, decodingDuration, liveVars,
                   labelVars, i, currentRun, events, stableNotes, time, activeNote,
                   currentNote, handler, recVars>>

\* The 'ready' handler when processBufferToSegments raises: setIsReady(true)
\* has run, analyzePitch's catch logs the error, and no setter of the
\* analysis is reached.
AnalyzePitchThrows ==
    /\ pending = "ready"
    /\ memo = "idle"
    /\ isReady' = TRUE
    /\ pending' = "none"
    /\ fault' = [fault EXCEPT !.file = TRUE]
    /\ UNCHANGED <<bufferVars, chunks, conversion, fileVars, liveVars, labelVars,
                   memoVars, time, activeNote, currentNote, handler, recVars>>

\* analyzeUserAudio when one of its stages raises: the buffer is already
\* normalized in place unless the first stage raised, the locals are lost,
\* and the catch returns [], which onstop stores.
AnalyzeUserAudioThrows ==
    /\ pending = "onstop"
    /\ \E stage \in LiveStages :
          /\ fault' = [fault EXCEPT !.live = stage]
          /\ channelData' = IF stage = "channel" THEN channelData
                            ELSE Normalize(channelData)
    /\ userPitches' = <<>>
    /\ rawSegments' = <<>>
    /\ smoothedSegments' = <<>>
    /\ userPitchSegments' = <<>>
    /\ pending' = "none"
    /\ UNCHANGED <<sampleRate, yin, chunks, conversion, fileVars, labelVars, memoVars,
                   playVars, handler, recVars>>

\* A file without pitch is ready, and the blob of a stopped recording has
\* just been decoded: its onstop handler is about to analyse the buffer.
InitFaults ==
    /\ pending = "onstop"
    /\ sampleRate \in MicRates
    /\ yin \in RecordedAnswers
    /\ \E len \in LiveLengths(Len(yin)) : channelData = Samples(len, 1, 300, 1000)
    /\ chunks = <<>>
    /\ pitchData = <<>>
    /\ decodingDuration = 0
    /\ pitchSegments = <<>>
    /\ userPitches = <<>>
    /\ rawSegments = <<>>
    /\ smoothedSegments = <<>>
    /\ userPitchSegments = <<>>
    /\ showSargam = TRUE
    /\ rootKey = "C"
    /\ memo = "idle"
    /\ i = 0
    /\ currentRun = <<>>
    /\ events = <<>>
    /\ stableNotes = <<>>
    /\ isReady = TRUE
    /\ time = null
    /\ activeNote = ""
    /\ currentNote = NoNote
    /\ conversion = NoConversion
    /\ handler = NoHandler
    /\ fault = NoFault
    /\ appRecording = FALSE
    /\ isRecording = FALSE
    /\ waiting = 0
    /\ recorders = << [NewRecorder EXCEPT !.state = "inactive", !.onstop = "analysing"] >>
    /\ mediaRecorderRef = 1

NextFaults ==
    \/ LoadFile
    \/ AnalyzePitch
    \/ AnalyzePitchThrows
    \/ StableNotesBegin
    \/ StableNotesStep
    \/ StableNotesEnd
    \/ AnalyzeUserAudio
    \/ AnalyzeUserAudioThrows
    \/ OnStopComplete

SpecFaults == InitFaults /\ [][NextFaults]_vars

----------------------------------------------------------------------------
(* Properties *)

\* A frame's estimate is present and inside the gate [lo, hi].
InGate(f, lo, hi) == f # null /\ f # 0 /\ lo <= f /\ f <= hi

\* The number of elements of list that satisfy Test.
Count(list, Test(_)) == Cardinality({k \in DOMAIN list : Test(list[k])})

\* C1 (noise gate): in the file analysis and in the live analysis, a frame
\* whose estimate is absent (null or 0) or outside the pipeline's gate (file
\* 60 .. 1100 Hz, live 50 .. 1200 Hz) has no segment, every other frame has
\* exactly one segment (the one that starts at the frame's time), so there
\* are as many raw segments as in-gate frames, and no segment has frequency 0.
C1_NoiseGate ==
    /\ Len(pitchSegments) =
          Cardinality({k \in DOMAIN pitchData : InGate(pitchData[k], 60, 1100)})
    /\ \A k \in DOMAIN pitchData :
          Cardinality({j \in DOMAIN pitchSegments :
                          pitchSegments[j].startTime = (k - 1) * bufferSize})
             = IF InGate(pitchData[k], 60, 1100) THEN 1 ELSE 0
    /\ \A j \in DOMAIN pitchSegments : pitchSegments[j].freq.num > 0
    /\ Len(rawSegments) =
          Cardinality({k \in DOMAIN userPitches : InGate(userPitches[k].freq, 50, 1200)})
    /\ \A k \in DOMAIN userPitches :
          Cardinality({j \in DOMAIN rawSegments :
                          rawSegments[j].startTime = userPitches[k].time})
             = IF InGate(userPitches[k].freq, 50, 1200) THEN 1 ELSE 0
    /\ \A j \in DOMAIN rawSegments : rawSegments[j].freq.num > 0

\* A file analysis that dropped a frame without estimate and kept another.
C1_Witness ==
    /\ pending = "none"
    /\ \E k \in DOMAIN pitchData : pitchData[k] = null
    /\ \E k \in DOMAIN pitchData : InGate(pitchData[k], 60, 1100)
    /\ Len(pitchSegments) < Len(pitchData)
    /\ Len(pitchSegments) > 0

\* round(69 + 12 * log2(f / 440)) of a segment's own frequency.
SegMidi(seg) == RoundedPitch(seg.freq)

\* endTime - startTime > 0.15 s, for a run or an event from first to last.
Over150ms(first, last) == 20 * (last.endTime - first.startTime) > 3 * sampleRate

\* Adjacent segments of run have equal MIDI numbers and gaps below 0.1 s.
RunContinuous(run) ==
    \A k \in 1 .. Len(run) - 1 :
        /\ SegMidi(run[k]) = SegMidi(run[k + 1])
        /\ 10 * (run[k + 1].startTime - run[k].endTime) < sampleRate

\* The walk takes one segment / the walk ends.
WalkStep == memo = "loop" /\ i <= Len(pitchSegments) /\ i' = i + 1
WalkEnd == memo = "loop" /\ memo' = "idle"

\* The segment taken by WalkStep breaks the run: another MIDI number than the
\* run's last segment, or 0.1 s or more after it.
Breaks ==
    /\ currentRun # <<>>
    /\ \/ SegMidi(pitchSegments[i]) # SegMidi(currentRun[Len(currentRun)])
       \/ 10 * (pitchSegments[i].startTime - currentRun[Len(currentRun)].endTime)
             >= sampleRate

\* C2 (run continuity): at every point of the walk the adjacent segments of
\* the current run have equal MIDI numbers and gaps below 0.1 s; a segment
\* with another MIDI number than the run's last one, or 0.1 s or more after
\* it, is never appended: the run is closed (handed to processRun, which adds
\* its event when it is long enough) and the new run holds that segment only.
C2_RunContinuity ==
    /\ [](RunContinuous(currentRun))
    /\ [][WalkStep =>
            IF Breaks
            THEN /\ currentRun' = << pitchSegments[i] >>
                 /\ IF Over150ms(currentRun[1], currentRun[Len(currentRun)])
                    THEN /\ Len(events') = Len(events) + 1
                         /\ events'[Len(events')].startTime = currentRun[1].startTime
                         /\ events'[Len(events')].endTime
                               = currentRun[Len(currentRun)].endTime
                    ELSE events' = events
            ELSE /\ currentRun' = Append(currentRun, pitchSegments[i])
                 /\ events' = events]_vars

\* The walk has just started a new run because a segment of the same MIDI
\* number came exactly 0.1 s after the previous one.
C2_Witness ==
    /\ memo = "loop"
    /\ i = 3
    /\ currentRun = << pitchSegments[2] >>
    /\ SegMidi(pitchSegments[1]) = SegMidi(pitchSegments[2])
    /\ 10 * (pitchSegments[2].startTime - pitchSegments[1].endTime) = sampleRate

RECURSIVE TotalHz(_)
TotalHz(run) ==
    IF run = <<>> THEN 0 ELSE Head(run).freq.num + TotalHz(Tail(run))

\* e is the event of run as C4 describes it (file segments hold whole Hz).
EventOf(run, e) ==
    /\ e.startTime = run[1].startTime
    /\ e.endTime = run[Len(run)].endTime
    /\ \A k \in DOMAIN run : run[k].freq.den = 1
    /\ e.avgFreq.num * Len(run) = TotalHz(run) * e.avgFreq.den
    /\ e.midi = RoundedPitch(e.avgFreq)
    /\ e.fullNote = NOTES[(e.midi % 12) + 1] \o ToString((e.midi \div 12) - 1)

\* after is before plus the event of run when run spans more than 0.15 s,
\* and before otherwise.
Closed(run, before, after) ==
    IF Over150ms(run[1], run[Len(run)])
    THEN /\ Len(after) = Len(before) + 1
         /\ SubSeq(after, 1, Len(before)) = before
         /\ EventOf(run, after[Len(after)])
    ELSE after = before

\* C4 (event construction): each time a run is closed, by a breaking segment
\* or at the end of the list, the event list grows by exactly one event when
\* the run spans more than 0.15 s, appended after the earlier events, with
\* the run's first startTime, last endTime, the unweighted mean frequency,
\* midi = round(69 + 12 * log2(mean / 440)) and the name NOTES[midi mod 12]
\* followed by floor(midi / 12) - 1; nothing else changes the event list.
C4_EventConstruction ==
    [][/\ (WalkStep /\ Breaks) => Closed(currentRun, events, events')
       /\ (WalkStep /\ ~Breaks) => events' = events
       /\ (WalkEnd /\ currentRun # <<>>) => Closed(currentRun, events, stableNotes')
       /\ (WalkEnd /\ currentRun = <<>>) => stableNotes' = events]_vars

\* Two events were published, one of them the mean (445 Hz) of a run of two
\* segments of 440 Hz and 450 Hz.
C4_Witness ==
    /\ memo = "idle"
    /\ Len(stableNotes) = 2
    /\ \E k \in DOMAIN stableNotes :
          /\ RatEq(stableNotes[k].avgFreq, Rat(445, 1))
          /\ stableNotes[k].endTime - stableNotes[k].startTime = 2 * bufferSize

\* m is the median of the three values a, b, c.
IsMedian(m, a, b, c) ==
    LET t == <<a, b, c>>
    IN  /\ \E j \in 1 .. 3 : t[j] = m
        /\ Cardinality({j \in 1 .. 3 : RatLe(t[j], m)}) >= 2
        /\ Cardinality({j \in 1 .. 3 : RatLe(m, t[j])}) >= 2

\* The frames of the live analysis that pass its gate, in order.
KeptFrames == SelectSeq(userPitches, LAMBDA p : InGate(p.freq, 50, 1200))

\* C5 (median smoothing): the smoothed list has the raw list's length and
\* time spans, and its frequency at k is the median of the raw frequencies at
\* k - 1 (k itself when first), k and k + 1 (k itself when last); so the
\* middle of a non-decreasing or non-increasing raw triple is kept, the
\* middle of the raw triple 220, 880, 225 becomes 225, and the raw list still
\* holds the gated frames' own estimates.
C5_MedianSmoothing ==
    LET raw == rawSegments
        out == smoothedSegments
        last == Len(raw)
    IN  /\ Len(out) = last
        /\ \A k \in 1 .. last :
              /\ out[k].startTime = raw[k].startTime
              /\ out[k].endTime = raw[k].endTime
              /\ IsMedian(out[k].freq,
                          raw[IF k > 1 THEN k - 1 ELSE k].freq,
                          raw[k].freq,
                          raw[IF k < last THEN k + 1 ELSE k].freq)
        /\ \A k \in 2 .. last - 1 :
              /\ (\/ RatLe(raw[k - 1].freq, raw[k].freq) /\ RatLe(raw[k].freq, raw[k + 1].freq)
                  \/ RatLe(raw[k + 1].freq, raw[k].freq) /\ RatLe(raw[k].freq, raw[k - 1].freq))
                 => out[k].freq = raw[k].freq
              /\ (/\ raw[k - 1].freq = Rat(220, 1)
                  /\ raw[k].freq = Rat(880, 1)
                  /\ raw[k + 1].freq = Rat(225, 1))
                 => out[k].freq = Rat(225, 1)
        /\ last = Len(KeptFrames)
        /\ \A k \in 1 .. last :
              /\ raw[k].freq = Rat(KeptFrames[k].freq, 1)
              /\ raw[k].startTime = KeptFrames[k].time

\* A live analysis smoothed the raw frequencies 220, 880, 225, 880: the spike
\* 880 became 225 and the following 225 became 880, the median of the raw
\* 880, 225, 880.
C5_Witness ==
    /\ pending = "none"
    /\ Len(rawSegments) = 4
    /\ rawSegments[1].freq = Rat(220, 1)
    /\ rawSegments[2].freq = Rat(880, 1)
    /\ rawSegments[3].freq = Rat(225, 1)
    /\ rawSegments[4].freq = Rat(880, 1)
    /\ smoothedSegments[2].freq = Rat(225, 1)
    /\ smoothedSegments[3].freq = Rat(880, 1)

\* next.startTime - current.endTime for the k-th smoothed segment and the
\* one after it, as computed.
GapAfter(k) == ComputedGap(smoothedSegments[k], smoothedSegments[k + 1], sampleRate)

\* A computed gap strictly between 0 and 1.5 s.
InsideFillRange(gap) == Positive(gap) /\ 2 * gap.whole < 3 * sampleRate

IsSmoothed(seg) == \E k \in DOMAIN smoothedSegments : smoothedSegments[k] = seg

\* The place in the returned list of the k-th segment that is a smoothed one.
SmoothedAt(k) ==
    CHOOSE j \in DOMAIN userPitchSegments :
        /\ IsSmoothed(userPitchSegments[j])
        /\ Cardinality({h \in 1 .. j : IsSmoothed(userPitchSegments[h])}) = k

\* The places of the returned list between the k-th smoothed segment and the
\* next one.
InGap(k) == (SmoothedAt(k) + 1) .. (SmoothedAt(k + 1) - 1)

\* C6 (gap interpolation bounds): the returned list holds every smoothed
\* segment unchanged and in order; every other segment of it lies between
\* two adjacent smoothed segments, and there are such segments only when the
\* gap next.startTime - current.endTime, as computed, is strictly between 0
\* and 1.5 s: none for a gap of exactly 0 or below, or of 1.5 s or more.
C6_GapBounds ==
    /\ SelectSeq(userPitchSegments, IsSmoothed) = smoothedSegments
    /\ \A j \in DOMAIN userPitchSegments :
          IsSmoothed(userPitchSegments[j])
          \/ \E k \in 1 .. Len(smoothedSegments) - 1 : j \in InGap(k)
    /\ \A k \in 1 .. Len(smoothedSegments) - 1 :
          /\ InGap(k) # {} => InsideFillRange(GapAfter(k))
          /\ (~Positive(GapAfter(k)) \/ 2 * GapAfter(k).whole >= 3 * sampleRate)
                => InGap(k) = {}

\* A live analysis met a gap of exactly 1.5 s and left it empty.
C6_Witness ==
    /\ pending = "none"
    /\ Len(smoothedSegments) = 2
    /\ 2 * (smoothedSegments[2].startTime - smoothedSegments[1].endTime) = 3 * sampleRate
    /\ userPitchSegments = smoothedSegments

\* steps = max(1, round(gap / framePeriod)) for the gap after the k-th
\* smoothed segment when it is inside the fill range, and 0 otherwise.
StepsAfter(k) ==
    IF InsideFillRange(GapAfter(k)) THEN Max(1, Round(GapAfter(k).whole, hopSize)) ELSE 0

\* The place of the k-th smoothed segment in the returned list.
RECURSIVE PlaceOf(_)
PlaceOf(k) == IF k = 1 THEN 1 ELSE PlaceOf(k - 1) + StepsAfter(k - 1) + 1

\* C7 (gap interpolation formula): after the k-th smoothed segment, when the
\* gap to the next one is inside (0, 1.5) s, come exactly
\* steps = max(1, round(gap / framePeriod)) synthetic segments and then the
\* next smoothed segment; the s-th spans
\* [cur.endTime + (s - 1) * framePeriod, cur.endTime + s * framePeriod] and
\* has frequency cur.freq * (1 - t) + next.freq * t with t = s / (steps + 1),
\* which lies between the two bounding frequencies and, for a single step, is
\* their arithmetic mean.
C7_GapFormula ==
    \A k \in 1 .. Len(smoothedSegments) - 1 :
        LET cur == smoothedSegments[k]
            next == smoothedSegments[k + 1]
            steps == StepsAfter(k)
            at == PlaceOf(k)
        IN  /\ userPitchSegments[at] = cur
            /\ userPitchSegments[at + steps + 1] = next
            /\ \A s \in 1 .. steps :
                  LET syn == userPitchSegments[at + s]
                      lo == IF RatLe(cur.freq, next.freq) THEN cur.freq ELSE next.freq
                      hi == IF RatLe(cur.freq, next.freq) THEN next.freq ELSE cur.freq
                  IN  /\ syn.startTime = cur.endTime + (s - 1) * hopSize
                      /\ syn.endTime = cur.endTime + s * hopSize
                      /\ RatEq(syn.freq,
                               Rat(cur.freq.num * next.freq.den * (steps + 1 - s)
                                      + next.freq.num * cur.freq.den * s,
                                   cur.freq.den * next.freq.den * (steps + 1)))
                      /\ RatLe(lo, syn.freq) /\ RatLe(syn.freq, hi)
                      /\ steps = 1 =>
                            RatEq(Rat(2 * syn.freq.num, syn.freq.den),
                                  Rat(cur.freq.num * next.freq.den
                                         + next.freq.num * cur.freq.den,
                                      cur.freq.den * next.freq.den))

\* A live analysis filled the one-hop gap between 220 Hz and 880 Hz with one
\* segment of 550 Hz.
C7_Witness ==
    /\ pending = "none"
    /\ Len(smoothedSegments) = 2
    /\ smoothedSegments[1].freq = Rat(220, 1)
    /\ smoothedSegments[2].freq = Rat(880, 1)
    /\ Len(userPitchSegments) = 3
    /\ RatEq(userPitchSegments[2].freq, Rat(550, 1))
    /\ userPitchSegments[2].startTime = smoothedSegments[1].endTime
    /\ userPitchSegments[2].endTime = smoothedSegments[2].startTime

\* The largest absolute sample value of a buffer of whole sample values.
Peak(data) ==
    IF data = <<>> THEN 0
    ELSE CHOOSE m \in {Abs(data[k].v.num) : k \in DOMAIN data} :
            \A k \in DOMAIN data : Abs(data[k].v.num) <= m

\* C8 (normalizer): when the live analysis runs on a buffer whose peak
\* absolute amplitude is above 0.001, every sample is multiplied by 0.9 / peak
\* (so signs and ratios are kept) and the peak becomes 0.9; when the peak is
\* 0.001 or less, the empty and the all-zero buffer included, the buffer is
\* left as it was.
C8_Normalizer ==
    [][(pending = "onstop" /\ pending' = "none") =>
          LET peak == Peak(channelData)
          IN  IF peak > 1
              THEN /\ Len(channelData') = Len(channelData)
                   /\ \A k \in DOMAIN channelData :
                         /\ channelData[k].v.den = 1
                         /\ channelData'[k].n = channelData[k].n
                         /\ channelData'[k].v.num * peak
                               = channelData[k].v.num * 900 * channelData'[k].v.den
                         /\ Abs(channelData'[k].v.num) <= 900 * channelData'[k].v.den
                   /\ \E k \in DOMAIN channelData :
                         Abs(channelData'[k].v.num) = 900 * channelData'[k].v.den
              ELSE channelData' = channelData]_vars

\* A recording with samples -0.5 and 0.25 was scaled to -0.9 and 0.45.
C8_Witness ==
    /\ pending = "none"
    /\ Len(channelData) = 2
    /\ RatEq(channelData[1].v, Rat(0 - 900, 1))
    /\ RatEq(channelData[2].v, Rat(450, 1))

\* The twelve chromatic names, and the 0-based place of one of them.
ChromaticNames == {NOTES[k] : k \in 1 .. Len(NOTES)}
PitchClassOf(name) == CHOOSE c \in 0 .. 11 : NOTES[c + 1] = name

\* The label of MIDI number m under root r, as C9 gives it.
DegreeOf(m, r) == SARGAM_MAPPING[((((m % 12) - PitchClassOf(r)) + 12) % 12) + 1]

\* What the App shows for event e.
Shown(e) ==
    getDisplayNote([note |-> e.fullNote, frequency |-> e.avgFreq], showSargam, rootKey)

\* C9 (scale-degree mapping): with scale-degree labels on and a root key r
\* of the chromatic table, every published event of MIDI number m is labelled
\* SARGAM_MAPPING[((m mod 12) - index(r) + 12) mod 12], in the event and in
\* the App's display; so the root's own pitch class is "Sa", under root C the
\* classes D and G are "Re" and "Pa", under root D the class D is "Sa", and
\* events of one pitch class carry one label whatever their octave or place
\* in the list.
C9_ScaleDegree ==
    (memo = "idle" /\ showSargam /\ rootKey \in ChromaticNames) =>
        /\ \A k \in DOMAIN stableNotes :
              LET e == stableNotes[k]
              IN  /\ e.label = DegreeOf(e.midi, rootKey)
                  /\ e.displayLabel = DegreeOf(e.midi, rootKey)
                  /\ Shown(e).main = DegreeOf(e.midi, rootKey)
                  /\ NOTES[(e.midi % 12) + 1] = rootKey => e.label = "Sa"
                  /\ (rootKey = "C" /\ NOTES[(e.midi % 12) + 1] = "D") => e.label = "Re"
                  /\ (rootKey = "C" /\ NOTES[(e.midi % 12) + 1] = "G") => e.label = "Pa"
                  /\ (rootKey = "D" /\ NOTES[(e.midi % 12) + 1] = "D") => e.label = "Sa"
        /\ \A j, k \in DOMAIN stableNotes :
              (stableNotes[j].midi - stableNotes[k].midi) % 12 = 0
                 => stableNotes[j].label = stableNotes[k].label

\* Under root D, the events C4 and C5, an octave apart, are both "ni".
C9_Witness ==
    /\ memo = "idle"
    /\ showSargam
    /\ rootKey = "D"
    /\ Len(stableNotes) = 2
    /\ stableNotes[1].fullNote = "C4" /\ stableNotes[1].label = "ni"
    /\ stableNotes[2].fullNote = "C5" /\ stableNotes[2].label = "ni"

\* Scale-degree labels are off, no root key is set, or the root key is not a
\* chromatic name.
Fallback == ~showSargam \/ rootKey = "" \/ rootKey \notin ChromaticNames

\* The absolute note name of MIDI number m.
AbsoluteName(m) == NOTES[(m % 12) + 1] \o ToString((m \div 12) - 1)

\* C10 (label fallback): with scale-degree labels off, no root key, or a
\* root key outside the chromatic table, every event (built or published) is
\* labelled with its absolute note name, and the walk that recomputes a
\* published list under such props publishes the same events: as many, with
\* the same times, mean frequency, MIDI number and note name.
C10_LabelFallback ==
    /\ [](Fallback =>
            /\ \A k \in DOMAIN events :
                  /\ events[k].label = AbsoluteName(events[k].midi)
                  /\ events[k].displayLabel = AbsoluteName(events[k].midi)
            /\ memo = "idle" =>
                  \A k \in DOMAIN stableNotes :
                      /\ stableNotes[k].label = AbsoluteName(stableNotes[k].midi)
                      /\ stableNotes[k].displayLabel = AbsoluteName(stableNotes[k].midi)
                      /\ Shown(stableNotes[k]).main = AbsoluteName(stableNotes[k].midi))
    /\ [][(WalkEnd /\ Fallback /\ stableNotes # <<>>) =>
            /\ Len(stableNotes') = Len(stableNotes)
            /\ \A k \in DOMAIN stableNotes :
                  /\ stableNotes'[k].startTime = stableNotes[k].startTime
                  /\ stableNotes'[k].endTime = stableNotes[k].endTime
                  /\ stableNotes'[k].avgFreq = stableNotes[k].avgFreq
                  /\ stableNotes'[k].midi = stableNotes[k].midi
                  /\ stableNotes'[k].fullNote = stableNotes[k].fullNote]_vars

\* With scale-degree labels on and the root key "H", two events were
\* published under their absolute names.
C10_Witness ==
    /\ memo = "idle"
    /\ showSargam
    /\ rootKey = "H"
    /\ Len(stableNotes) = 2
    /\ stableNotes[1].label = "D4"
    /\ stableNotes[2].label = "G4"

\* The places of the published events whose closed interval contains t.
Containing(t) ==
    {k \in DOMAIN stableNotes :
        stableNotes[k].startTime <= t /\ t <= stableNotes[k].endTime}

\* C11 (active-note lookup): after a lookup at playback time t, the active
\* note and the note handed to onPitchUpdate are the note name and average
\* frequency of an event whose closed interval [startTime, endTime] contains
\* t whenever there is such an event, and both are cleared exactly when no
\* event's closed interval contains t.
C11_ActiveNoteLookup ==
    time # null =>
        /\ Containing(time) # {} =>
              \E k \in Containing(time) :
                  /\ activeNote = stableNotes[k].fullNote
                  /\ currentNote = [note |-> stableNotes[k].fullNote,
                                    frequency |-> stableNotes[k].avgFreq]
        /\ Containing(time) = {} <=> (activeNote = "" /\ currentNote = NoNote)

\* A lookup at the very end of the only event that contains it reported
\* that event.
C11_Witness ==
    /\ time # null
    /\ \E k \in DOMAIN stableNotes :
          /\ Containing(time) = {k}
          /\ time = stableNotes[k].endTime
          /\ activeNote = stableNotes[k].fullNote
          /\ currentNote.frequency = stableNotes[k].avgFreq

\* The list is time-ordered and non-overlapping.
Ordered(list) ==
    \A k \in 1 .. Len(list) - 1 :
        /\ list[k].startTime < list[k + 1].startTime
        /\ list[k].endTime <= list[k + 1].startTime

\* C12 (event list ordering): for every buffer the file pipeline analyses,
\* the event list, while it is built and once published, is time-ordered and
\* non-overlapping: consecutive events a, b have a.startTime < b.startTime
\* and a.endTime <= b.startTime.
C12_EventOrdering ==
    /\ Ordered(events)
    /\ Ordered(stableNotes)

\* Two events were published, the second starting where the first ends.
C12_Witness ==
    /\ memo = "idle"
    /\ Len(stableNotes) >= 2
    /\ stableNotes[1].endTime = stableNotes[2].startTime

Silent == \A k \in DOMAIN yin : yin[k] = null

\* C14 (empty or silent input): for a buffer of length 0, or one on which
\* the detector answers no pitch for every window, each analysis ends with
\* every window analysed, every segment list empty and the event list empty;
\* the aggregation takes its early return and never walks.
C14_SilentInput ==
    Silent =>
        /\ pitchSegments = <<>>
        /\ rawSegments = <<>>
        /\ smoothedSegments = <<>>
        /\ userPitchSegments = <<>>
        /\ memo # "loop"
        /\ events = <<>>
        /\ stableNotes = <<>>
        /\ activeNote = ""
        /\ (pending = "none" /\ isReady) => Len(pitchData) = FileFrames(Length(channelData))
        /\ (pending = "none" /\ ~isReady) => Len(userPitches) = LiveFrames(Length(channelData))

\* A file of MaxFrames silent frames was analysed and aggregated, and a
\* lookup found no active note.
C14_Witness ==
    /\ Silent
    /\ Len(yin) = MaxFrames
    /\ isReady
    /\ Len(pitchData) = MaxFrames
    /\ memo = "idle"
    /\ time # null
    /\ stableNotes = <<>>

\* The places where a run of the aggregator would start in segs, the place
\* where the run started at a ends, and the starts of the runs that last
\* more than 0.15 s.
RunStarts(segs) ==
    {a \in DOMAIN segs : a = 1 \/ ~Continues(segs[a - 1], segs[a], sampleRate)}

RunEnd(segs, a) ==
    LET later == {b \in RunStarts(segs) : b > a}
    IN  IF later = {} THEN Len(segs)
        ELSE (CHOOSE b \in later : \A c \in later : b <= c) - 1

LongRuns(segs) ==
    {a \in RunStarts(segs) :
        20 * (segs[RunEnd(segs, a)].endTime - segs[a].startTime) > 3 * sampleRate}

\* A recording was analysed (no file is loaded).
Recorded == pending = "none" /\ ~isReady /\ memo = "idle"

FileKept == {f \in 0 .. Len(pitchData) - 1 : InGate(pitchData[f + 1], 60, 1100)}
KeptBelow(f) == Cardinality({g \in FileKept : g < f})

\* C16 (file pipeline uses raw segments): the analysis of a file leaves the
\* sample buffer as it was, and the segment list the aggregation reads is
\* exactly the list of in-gate frames in frame order, each with the
\* detector's own answer (no median, no synthetic segment); the recording's
\* stages produce nothing for a file, and only the analysis of a recording
\* changes the buffer.
C16_FileRawSegments ==
    /\ [](isReady =>
            /\ Len(pitchSegments) = Cardinality(FileKept)
            /\ \A f \in FileKept :
                  LET seg == pitchSegments[KeptBelow(f) + 1]
                  IN  /\ seg.startTime = f * bufferSize
                      /\ seg.endTime = (f + 1) * bufferSize
                      /\ seg.freq = Rat(pitchData[f + 1], 1)
            /\ rawSegments = <<>>
            /\ smoothedSegments = <<>>
            /\ userPitchSegments = <<>>)
    /\ [][channelData' # channelData => (pending = "onstop" /\ pending' = "none")]_vars
    /\ [][(pending = "ready" /\ pending' = "none") =>
            (channelData' = channelData /\ pitchData' = yin)]_vars

\* A file was analysed into three segments whose middle one is a spike the
\* median filter would remove, next to a frame with no pitch that the gap
\* filler would fill.
C16_Witness ==
    /\ isReady
    /\ memo = "idle"
    /\ pitchData = <<440, null, 466, 440>>
    /\ Len(pitchSegments) = 3
    /\ pitchSegments[2].freq = Rat(466, 1)
    /\ channelData = Samples(Length(channelData), 1, 2, 0 - 1)

\* C17 (fixed-length estimator windows): in both analyses and for a buffer
\* of any length, every chunk handed to the frequency estimator holds exactly
\* 2048 samples.
C17_FixedWindows ==
    \A k \in DOMAIN chunks : chunks[k] = 2048

\* list holds exactly one segment for each in-gate answer of answers (frame
\* f is the 0-based place of the answer): it spans frame f of the given
\* period, in sample periods, and carries the answer unchanged.
SpansFrames(list, answers, lo, hi, period) ==
    LET kept == {f \in 0 .. Len(answers) - 1 : InGate(answers[f + 1], lo, hi)}
    IN  /\ Len(list) = Cardinality(kept)
        /\ \A f \in kept :
              \E j \in DOMAIN list :
                  /\ list[j].startTime = f * period
                  /\ list[j].endTime = (f + 1) * period
                  /\ list[j].freq = Rat(answers[f + 1], 1)

\* Every segment ends after it starts, starts are strictly increasing and no
\* segment reaches into the next.
WellSpaced(list) ==
    /\ \A j \in DOMAIN list : list[j].endTime > list[j].startTime
    /\ \A j \in 1 .. Len(list) - 1 :
          /\ list[j].startTime < list[j + 1].startTime
          /\ list[j].endTime <= list[j + 1].startTime

C19_RoundTrip ==
    conversion.center # Rat(0, 1) =>
        /\ RatLe(freqCenter(conversion.midi - 1), conversion.freq)
        /\ RatLe(conversion.freq, freqCenter(conversion.midi + 1))
        /\ RatLt(freqCenter(conversion.midi - 1), conversion.center)
        /\ RatLt(conversion.center, freqCenter(conversion.midi + 1))

\* 1200 Hz went to MIDI number 86 and back to 1174.659 Hz.
C19_Witness ==
    /\ conversion.freq = Rat(1200, 1)
    /\ conversion.midi = 86
    /\ conversion.center = Rat(1174659, 1000)

\* The event covers the whole of chunk k.
Covers(e, k) == e.startTime <= (k - 1) * bufferSize /\ k * bufferSize <= e.endTime

\* C20 (tone, silence, tone): the file analysis of 0.3 s of 440 Hz, 0.05 s of
\* silence and 0.3 s of 440 Hz at 44100 Hz, whatever the detector answers on
\* the chunks that are not pure tone, publishes one event that covers both
\* tones or two events; every event is A4, its mean frequency within A4's
\* quarter tone either side of 440 Hz, lasts more than 0.15 s and covers a
\* pure-tone chunk, so that none comes from the silent stretch.
C20_ToneSilenceTone ==
    (isReady /\ memo = "idle") =>
        /\ Len(stableNotes) \in {1, 2}
        /\ Len(stableNotes) = 1 =>
              \A k \in PureToneChunks : Covers(stableNotes[1], k)
        /\ \A n \in DOMAIN stableNotes :
              LET e == stableNotes[n]
              IN  /\ e.fullNote = "A4"
                  /\ e.midi = 69
                  /\ RatLt(Rat(427, 1), e.avgFreq) /\ RatLt(e.avgFreq, Rat(453, 1))
                  /\ 20 * (e.endTime - e.startTime) > 3 * sampleRate
                  /\ \E k \in PureToneChunks : Covers(e, k)

\* The detector found no pitch in the two chunks around the silence, and one
\* event covering both tones was published.
C20_Witness ==
    /\ isReady
    /\ memo = "idle"
    /\ Len(pitchData) = 14
    /\ pitchData[7] = null
    /\ pitchData[8] = null
    /\ Len(stableNotes) = 1
    /\ RatEq(stableNotes[1].avgFreq, Rat(440, 1))

\* C21 (octave jump): the file analysis of 0.3 s of 440 Hz followed at once
\* by 0.3 s of 880 Hz at 44100 Hz, whatever the detector answers on the chunk
\* that straddles the jump (and on the short last chunk), publishes exactly
\* two events, of MIDI numbers 69 and 81, an octave apart, the first covering
\* the pure chunks of the low tone and the second those of the high tone.
C21_OctaveJump ==
    (isReady /\ memo = "idle") =>
        /\ Len(stableNotes) = 2
        /\ stableNotes[1].midi = 69
        /\ stableNotes[2].midi = 81
        /\ stableNotes[2].midi - stableNotes[1].midi = 12
        /\ \A k \in LowToneChunks : Covers(stableNotes[1], k)
        /\ \A k \in HighToneChunks \ {FileFrames(Length(OctaveJump))} :
              Covers(stableNotes[2], k)

\* The detector answered 856 Hz, still A5, on the straddling chunk, which
\* joined the second event.
C21_Witness ==
    /\ isReady
    /\ memo = "idle"
    /\ pitchData[7] = 856
    /\ Len(stableNotes) = 2
    /\ stableNotes[2].startTime = 6 * bufferSize
    /\ stableNotes[2].midi = 81

\* The parent changed the root key or toggled the scale-degree labels.
LabelChange == rootKey' # rootKey \/ showSargam' # showSargam

\* The fields of event e that are not labels.
Core(e) == [startTime |-> e.startTime, endTime |-> e.endTime,
            avgFreq |-> e.avgFreq, midi |-> e.midi, fullNote |-> e.fullNote]

\* C22 (labels are presentation-only): a change of the root key or of the
\* scale-degree toggle leaves the pitch segments (and the frame pitches and
\* duration) as they were, and the walk that then recomputes the events over
\* the same segments publishes as many events, in the same order, each with
\* the startTime, endTime, average frequency, MIDI number and absolute note
\* name it had; only label and displayLabel may differ, and they are equal to
\* each other.
C22_LabelsPresentationOnly ==
    /\ [][LabelChange => UNCHANGED <<fileVars, stableNotes>>]_vars
    /\ [][(WalkEnd /\ stableNotes # <<>>) =>
            /\ DOMAIN stableNotes' = DOMAIN stableNotes
            /\ \A k \in DOMAIN stableNotes :
                  /\ Core(stableNotes'[k]) = Core(stableNotes[k])
                  /\ DOMAIN stableNotes'[k] = DOMAIN stableNotes[k]
                  /\ stableNotes'[k].displayLabel = stableNotes'[k].label]_vars

\* After the root key went from C to D with scale-degree labels on, the
\* event A4 is published as "Pa" where it was "Dha".
C22_Witness ==
    /\ memo = "idle"
    /\ showSargam
    /\ rootKey = "D"
    /\ Len(stableNotes) = 1
    /\ stableNotes[1].fullNote = "A4"
    /\ stableNotes[1].label = "Pa"

\* The timeupdate handler notifies: its closure holds frame pitches.
Notifies == Len(handler.pitchData) > 0 /\ handler.decodingDuration > 0

\* C23 (a new analysis replaces the old one): once a file is ready, every
\* notification of the timeupdate handler is the one the frame pitches and
\* the duration of the loaded file give at the playback time, and every
\* notification of the stable-note checker is looked up in stable notes
\* walked from the segments of the loaded file.
C23_CurrentFileOnly ==
    /\ [][(TimeUpdate /\ Notifies) =>
            currentNote' = timeupdate(FilePitches(channelData, yin), Length(channelData),
                                      time', currentNote)]_vars
    /\ [][CheckPitch =>
            /\ pitchSegments = processBufferToSegments(channelData, yin).segments
            /\ pitchData = FilePitches(channelData, yin)]_vars

\* The segments of the analysed list that lie inside event e.
SegmentsOf(e) ==
    {k \in DOMAIN pitchSegments :
        /\ pitchSegments[k].startTime >= e.startTime
        /\ pitchSegments[k].endTime <= e.endTime}

\* C24 (an event's MIDI number is its run's): all segments of the current
\* run share one MIDI number; when a run is closed into an event, by a
\* breaking segment or at the end of the list, the event's MIDI number,
\* computed from the mean frequency, is the MIDI number of every segment of
\* the run and its note name is the note of each of them; and every segment
\* inside a published event has the event's MIDI number and note name.
C24_EventMidiIsRunMidi ==
    /\ [](\A j, k \in DOMAIN currentRun :
             SegMidi(currentRun[j]) = SegMidi(currentRun[k]))
    /\ [][((WalkStep /\ Breaks) \/ (WalkEnd /\ currentRun # <<>>)) =>
            LET after == IF WalkEnd THEN stableNotes' ELSE events'
            IN  Len(after) > Len(events) =>
                   \A k \in DOMAIN currentRun :
                       /\ SegMidi(currentRun[k]) = after[Len(after)].midi
                       /\ getNote(currentRun[k].freq) = after[Len(after)].fullNote]_vars
    /\ [](memo = "idle" =>
             \A n \in DOMAIN stableNotes :
                 /\ SegmentsOf(stableNotes[n]) # {}
                 /\ stableNotes[n].midi = RoundedPitch(stableNotes[n].avgFreq)
                 /\ \A k \in SegmentsOf(stableNotes[n]) :
                       /\ SegMidi(pitchSegments[k]) = stableNotes[n].midi
                       /\ getNote(pitchSegments[k].freq) = stableNotes[n].fullNote)

\* The frames 440 Hz and 450 Hz, both A4, were published as one event of mean
\* 445 Hz, MIDI number 69.
C24_Witness ==
    /\ memo = "idle"
    /\ Len(pitchSegments) = 2
    /\ RatEq(pitchSegments[1].freq, Rat(440, 1))
    /\ RatEq(pitchSegments[2].freq, Rat(450, 1))
    /\ Len(stableNotes) = 1
    /\ RatEq(stableNotes[1].avgFreq, Rat(445, 1))
    /\ stableNotes[1].midi = 69

\* C25 (the live output is well-formed in time): the list returned by the
\* live analysis is sorted by startTime, every segment of it has
\* endTime > startTime, no segment starts before the one before it has ended,
\* and the synthetic segments of a gap tile it: the first starts where the
\* smoothed segment before the gap ends, each next one where the previous one
\* ends, and the last one ends where the following smoothed segment starts.
C25_LiveWellFormed ==
    /\ \A j \in DOMAIN userPitchSegments :
          userPitchSegments[j].endTime > userPitchSegments[j].startTime
    /\ \A j \in 1 .. Len(userPitchSegments) - 1 :
          /\ userPitchSegments[j].startTime <= userPitchSegments[j + 1].startTime
          /\ userPitchSegments[j].endTime <= userPitchSegments[j + 1].startTime
    /\ \A k \in 1 .. Len(smoothedSegments) - 1 :
          InGap(k) # {} =>
             \A j \in InGap(k) \cup {SmoothedAt(k)} :
                 userPitchSegments[j].endTime = userPitchSegments[j + 1].startTime

\* freq lies in the live noise gate [50, 1200] Hz.
InLiveGate(freq) == RatLe(Rat(50, 1), freq) /\ RatLe(freq, Rat(1200, 1))

\* C26 (smoothing and gap filling stay inside the gate): every raw, smoothed
\* and returned segment of the live analysis has a frequency in [50, 1200] Hz;
\* each smoothed frequency is one of the raw frequencies at its place or next
\* to it, and each returned segment that is not a smoothed one has a
\* frequency between those of the smoothed segments around it.
C26_InsideLiveGate ==
    /\ \A k \in DOMAIN rawSegments : InLiveGate(rawSegments[k].freq)
    /\ \A k \in DOMAIN smoothedSegments :
          /\ InLiveGate(smoothedSegments[k].freq)
          /\ \E h \in {k - 1, k, k + 1} \cap DOMAIN rawSegments :
                smoothedSegments[k].freq = rawSegments[h].freq
    /\ \A j \in DOMAIN userPitchSegments :
          /\ InLiveGate(userPitchSegments[j].freq)
          /\ ~IsSmoothed(userPitchSegments[j]) =>
                \E k \in 1 .. Len(smoothedSegments) - 1 :
                    /\ j \in InGap(k)
                    /\ \/ /\ RatLe(smoothedSegments[k].freq, userPitchSegments[j].freq)
                          /\ RatLe(userPitchSegments[j].freq, smoothedSegments[k + 1].freq)
                       \/ /\ RatLe(smoothedSegments[k + 1].freq, userPitchSegments[j].freq)
                          /\ RatLe(userPitchSegments[j].freq, smoothedSegments[k].freq)

\* The spike 880 Hz between 220 Hz and 225 Hz was smoothed to 225 Hz, and the
\* one-hop gap after it was filled with a segment of 225 Hz.
C26_Witness ==
    /\ pending = "none"
    /\ Len(rawSegments) = 3
    /\ rawSegments[2].freq = Rat(880, 1)
    /\ smoothedSegments[2].freq = Rat(225, 1)
    /\ Len(userPitchSegments) = 4
    /\ ~IsSmoothed(userPitchSegments[3])
    /\ RatEq(userPitchSegments[3].freq, Rat(225, 1))

\* C27 as claimed (the lookup is unambiguous): at every query time at most
\* one published event satisfies startTime <= t <= endTime.
C27_LookupUnambiguous ==
    memo = "idle" => \A t \in Times : Cardinality(Containing(t)) <= 1

\* C27 (the lookup is unambiguous but for shared boundaries): every published
\* event ends after it starts and no later than any later event starts, so
\* the closed intervals of two events share at most one instant; a query time
\* is contained in at most two events, and in two only when they are adjacent
\* in the list and the time is the end of the first and the start of the
\* second; the linear search then reports the earlier of the two.
C27_LookupBoundaryOnly ==
    /\ memo = "idle" =>
          /\ \A k \in DOMAIN stableNotes :
                stableNotes[k].startTime < stableNotes[k].endTime
          /\ \A j, k \in DOMAIN stableNotes :
                j < k => stableNotes[j].endTime <= stableNotes[k].startTime
          /\ \A t \in Times :
                /\ Cardinality(Containing(t)) <= 2
                /\ \A j, k \in Containing(t) :
                      j < k => /\ k = j + 1
                               /\ stableNotes[j].endTime = t
                               /\ stableNotes[k].startTime = t
    /\ (memo = "idle" /\ time # null /\ Containing(time) # {}) =>
          \A k \in Containing(time) :
              activeNote = stableNotes[k].fullNote
              \/ \E j \in Containing(time) : j < k

\* A lookup at the instant where A4 ends and A#4 starts found both events
\* containing it and reported A4.
C27_Witness ==
    /\ memo = "idle"
    /\ time # null
    /\ Len(stableNotes) = 2
    /\ Containing(time) = {1, 2}
    /\ stableNotes[1].endTime = time
    /\ stableNotes[2].startTime = time
    /\ stableNotes[1].fullNote = "A4"
    /\ stableNotes[2].fullNote = "A#4"
    /\ activeNote = "A4"

\* C28 (the recording state stays consistent): whenever the App's flag is
\* off and no startRecording call waits for getUserMedia, no MediaRecorder
\* is in the recording state.
C28_RecordingConsistent ==
    (~appRecording /\ waiting = 0) =>
        \A r \in DOMAIN recorders : recorders[r].state # "recording"

\* C29 (recording completion): a stopped recorder's onstop handler invokes
\* onRecordingComplete at most once, and when the handler has ended, whether
\* the blob could be decoded or not, it has invoked it exactly once with the
\* analysed segments and every track of the stream is stopped.
C29_RecordingCompletes ==
    \A r \in DOMAIN recorders :
        /\ recorders[r].completed <= 1
        /\ recorders[r].onstop \in {"done", "rejected"} =>
              /\ recorders[r].completed = 1
              /\ ~recorders[r].tracks

\* The live analysis raises / the file analysis raises.
LiveRaises == pending = "onstop" /\ fault'.live \in LiveStages
FileRaises == pending = "ready" /\ fault'.file

\* C30 (analysis failures are contained): when a stage of the live analysis
\* raises, the analysis returns the empty list, which is stored, and the
\* onstop handler goes on (no recorder's handler is rejected by it) and
\* completes with the empty list; when the file analysis raises, the
\* published pitch segments and stable notes are the ones from before and no
\* recomputation is scheduled.
C30_FailuresContained ==
    /\ [][LiveRaises =>
            /\ userPitchSegments' = <<>>
            /\ pending' = "none"
            /\ UNCHANGED <<recVars, fileVars, memoVars>>]_vars
    /\ [][(OnStopComplete /\ fault.live \in LiveStages) =>
            \E r \in DOMAIN recorders :
                /\ recorders[r].onstop = "analysing"
                /\ recorders'[r].onstop = "done"
                /\ recorders'[r].completed = 1
                /\ recorders'[r].segments = <<>>]_vars
    /\ [][FileRaises => UNCHANGED <<pitchSegments, decodingDuration, memoVars>>]_vars
    /\ [](fault.file => memo = "idle")

\* The analysis of a recording raised in the gap filling and its handler
\* completed with the empty list; later the analysis of a second file raised
\* and the events of the first file are still published.
C30_Witness ==
    /\ isReady
    /\ pitchData = <<>>
    /\ pitchSegments # <<>>
    /\ stableNotes # <<>>
    /\ fault.file
    /\ fault.live = "fill"
    /\ userPitchSegments = <<>>
    /\ \E r \in DOMAIN recorders :
          /\ recorders[r].onstop = "done"
          /\ recorders[r].completed = 1
          /\ recorders[r].segments = <<>>
          /\ ~recorders[r].tracks

====
